---- MODULE Spec2Model ----
(***************************************************************************)
(* Farm Rescue: the economic ledger (GameState), the growable entities     *)
(* (Crop, Animal), the weather/demand model (Weather), the simulation      *)
(* clock (TimerManager) and the transaction facade (ShopManager,           *)
(* FarmManager), as one state machine.                                     *)
(*                                                                         *)
(* Representation.  Money is in dollars.  Time is Date.now() in            *)
(* milliseconds.  A weather value is kept in hundredths (0.80 is 80) and   *)
(* a demand multiplier in tenths (1.2 is 12), so that every comparison     *)
(* and floor of the source is exact integer arithmetic.  NULL is the       *)
(* JavaScript null of a timestamp or a timer handle.                       *)
(***************************************************************************)
EXTENDS Integers, Sequences, FiniteSets, TLC

VARIABLES gs, tm, now, nextId

vars == <<gs, tm, now, nextId>>

(***************************************************************************)
(* Bounds of the model (not program constants).                            *)
(***************************************************************************)
\* Ledger credits are not taken once totalMoneyEarned would exceed this
MaxEarned == 9900
\* Ledger debits are not taken once totalMoneySpent would exceed this
MaxSpent == 150
\* Spec: entities created, advances of the wall clock, last day reached
MaxEntities == 1
MaxClockSteps == 3
MaxDay == 2
\* SeasonSpec: the same three, over a whole season and beyond its last day
SeasonMaxEntities == 1
SeasonMaxClockSteps == 3
SeasonMaxDay == 12
\* LiveSpec: entities created, last day reached
LiveMaxEntities == 1
LiveMaxDay == 13
\* CapSpec: crops and animals handed to the Ledger
CapMaxCrops == 11
CapMaxAnimals == 2
\* BreedSpec: entities created (bought or born), half minutes of wall clock, days
BreedMaxEntities == 3
BreedMaxClockSteps == 8
BreedMaxDay == 2
\* TradeSpec: entities created, minutes of wall clock
TradeMaxEntities == 3
TradeMaxClockSteps == 3
MarketMaxEntities == 1
MarketMaxClockSteps == 1
MarketMaxDay == 2
PauseMaxEntities == 1
PauseMaxClockSteps == 6
PauseMaxDay == 2
\* HerdSpec: crops and animals on the ledger, offspring constructed, clock steps
HerdMaxCrops == 11
HerdMaxAnimals == 6
HerdMaxBorn == 1
HerdMaxClockSteps == 1

(***************************************************************************)
(* config.js and constants.js                                              *)
(***************************************************************************)
NULL == 0
STARTING_MONEY == 50
GOAL_MONEY == 5000
TOTAL_DAYS == 10
DAY_DURATION_MINUTES == 3
WEATHER_FORECAST_DAYS == 7
MAX_CROP_SLOTS == 10
MAX_ANIMAL_SLOTS == 5
WEATHER_MIN == 10
WEATHER_MAX == 100

PLAYING == "playing"
WON == "won"
LOST == "lost"

SEED == "seed"
GROWING == "growing"
MATURE == "mature"
HARVESTED == "harvested"
YOUNG == "young"

CROPS ==
  [ wheat      |-> [seedCost |-> 10,  growthTime |-> 2, baseSellPrice |-> 18],
    carrot     |-> [seedCost |-> 30,  growthTime |-> 3, baseSellPrice |-> 60],
    corn       |-> [seedCost |-> 70,  growthTime |-> 4, baseSellPrice |-> 150],
    strawberry |-> [seedCost |-> 150, growthTime |-> 5, baseSellPrice |-> 350],
    watermelon |-> [seedCost |-> 300, growthTime |-> 7, baseSellPrice |-> 750] ]

\* breedingChance and offspringSurvivalRate are probabilities strictly
\* between 0 and 1 for every configured animal: both outcomes of each draw
\* are possible, and the draws are inputs of the breeding step.
ANIMALS ==
  [ chicken |-> [purchaseCost |-> 40,  growthTime |-> 3, baseSellPrice |-> 75],
    rabbit  |-> [purchaseCost |-> 100, growthTime |-> 4, baseSellPrice |-> 200],
    sheep   |-> [purchaseCost |-> 220, growthTime |-> 5, baseSellPrice |-> 480],
    pig     |-> [purchaseCost |-> 450, growthTime |-> 6, baseSellPrice |-> 1050],
    cow     |-> [purchaseCost |-> 900, growthTime |-> 8, baseSellPrice |-> 2250] ]

WEATHER_DEMAND_RULES ==
  << [minWeather |-> 100, maxWeather |-> 100, demandMultiplier |-> 8],
     [minWeather |-> 90,  maxWeather |-> 99,  demandMultiplier |-> 9],
     [minWeather |-> 80,  maxWeather |-> 89,  demandMultiplier |-> 10],
     [minWeather |-> 70,  maxWeather |-> 79,  demandMultiplier |-> 12],
     [minWeather |-> 60,  maxWeather |-> 69,  demandMultiplier |-> 13],
     [minWeather |-> 50,  maxWeather |-> 59,  demandMultiplier |-> 14],
     [minWeather |-> 40,  maxWeather |-> 49,  demandMultiplier |-> 15],
     [minWeather |-> 30,  maxWeather |-> 39,  demandMultiplier |-> 17],
     [minWeather |-> 10,  maxWeather |-> 29,  demandMultiplier |-> 20] >>

MILESTONES == << 100, 1250, 2500, 3750, 5000 >>

(***************************************************************************)
(* Inputs of the operations, drawn from small sets.                        *)
(***************************************************************************)
\* values a weather draw (HELPERS.randomFloat) can return, in hundredths
WeatherSamples == {80}
\* crop types passed to buySeed / new Crop: a configured one and an unknown one
CropTypeInputs == {"wheat", "nosuchcrop"}
\* animal types passed to buyAnimal / new Animal
AnimalTypeInputs == {"chicken", "nosuchanimal"}
\* amounts passed to addMoney: invalid, and the amount that takes the
\* starting balance exactly to the goal
CreditInputs == {-1, 4950}
\* amounts passed to deductMoney: invalid, affordable, larger than any balance
DebitInputs == {-1, 100, 20000}

(***************************************************************************)
(* helpers.js                                                              *)
(***************************************************************************)
Max(a, b) == IF a >= b THEN a ELSE b
Min(a, b) == IF a <= b THEN a ELSE b

\* HELPERS.clamp
clamp(value, lo, hi) == Min(Max(value, lo), hi)

\* HELPERS.minutesToMilliseconds
minutesToMilliseconds(minutes) == IF minutes < 0 THEN 0 ELSE minutes * 60 * 1000

\* HELPERS.getElapsedTime at wall-clock time t: a null start time is not a
\* number and yields 0
getElapsedTime(startTime, t) ==
  IF startTime = NULL \/ startTime < 0 THEN 0 ELSE t - startTime

\* HELPERS.isValidNumber for the integer amounts of the model: always a
\* finite number
isValidNumber(value) == value \in Int

\* index of the first element of s whose id is id, 0 when there is none
\* (Array.prototype.findIndex, shifted by one)
findIndex(s, id) ==
  IF \E i \in 1..Len(s) : s[i].id = id
  THEN CHOOSE i \in 1..Len(s) : s[i].id = id /\ \A j \in 1..(i-1) : s[j].id # id
  ELSE 0

\* Array.prototype.splice(index, 1)
splice(s, i) == SubSeq(s, 1, i-1) \o SubSeq(s, i+1, Len(s))

(***************************************************************************)
(* Weather (js/models/Animal.js, class Weather)                            *)
(***************************************************************************)
RECURSIVE firstRule_Exclusive(_, _)
\* a rule scan that takes the upper end of a range as excluded
firstRule_Exclusive(v, i) ==
  IF i > Len(WEATHER_DEMAND_RULES) THEN 10
  ELSE IF v >= WEATHER_DEMAND_RULES[i].minWeather /\ v < WEATHER_DEMAND_RULES[i].maxWeather
       THEN WEATHER_DEMAND_RULES[i].demandMultiplier
       ELSE firstRule_Exclusive(v, i + 1)

RECURSIVE firstRule(_, _)
\* the rule scan of calculateDemandIndex from rule i on: the multiplier of
\* the first rule whose inclusive range contains v, 10 (the neutral 1.0)
\* when no rule matches
firstRule(v, i) ==
  IF i > Len(WEATHER_DEMAND_RULES) THEN 10
  ELSE IF v >= WEATHER_DEMAND_RULES[i].minWeather /\ v <= WEATHER_DEMAND_RULES[i].maxWeather
       THEN WEATHER_DEMAND_RULES[i].demandMultiplier
       ELSE firstRule(v, i + 1)

\* a calculateDemandIndex that never looks at the first rule
calculateDemandIndex_SkipFirst(weatherValue) ==
  firstRule(clamp(weatherValue, WEATHER_MIN, WEATHER_MAX), 2)

\* Weather.calculateDemandIndex
calculateDemandIndex(weatherValue) ==
  firstRule(clamp(weatherValue, WEATHER_MIN, WEATHER_MAX), 1)

\* new Weather(day, weatherValue): a day outside 1..TOTAL_DAYS is replaced
\* by day 1; weatherValue is the explicit or the drawn value
Weather(day, weatherValue) ==
  LET d == IF day < 1 \/ day > TOTAL_DAYS THEN 1 ELSE day
      v == clamp(weatherValue, WEATHER_MIN, WEATHER_MAX)
  IN  [day |-> d, weatherValue |-> v, demandIndex |-> calculateDemandIndex(v)]

\* Weather.generateForecast(numDays, startDay) with the drawn values draws
generateForecast(numDays, startDay, draws) ==
  LET n  == IF numDays < 1 THEN 7 ELSE numDays
      s0 == IF startDay < 1 THEN 1 ELSE startDay
  IN  [i \in 1..n |-> Weather(s0 + (i - 1), draws[i])]

(***************************************************************************)
(* Crop (Crop.js)                                                          *)
(***************************************************************************)
\* new Crop(type) with the generated id
Crop(id, type) ==
  [id |-> id, type |-> type, status |-> SEED, plantTime |-> NULL, harvestTime |-> NULL]

Crop_growthDuration(c) == minutesToMilliseconds(CROPS[c.type].growthTime)

\* a plant that does not look at the status
Crop_plant_Again(c, t) ==
  [e |-> [c EXCEPT !.status = GROWING, !.plantTime = t], ret |-> TRUE]

\* Crop.plant at time t
Crop_plant(c, t) ==
  IF c.status # SEED THEN [e |-> c, ret |-> FALSE]
  ELSE [e |-> [c EXCEPT !.status = GROWING, !.plantTime = t], ret |-> TRUE]

\* an isMature that answers without recording the transition
Crop_isMature_Pure(c, t) ==
  IF c.status # GROWING THEN [e |-> c, ret |-> (c.status = MATURE)]
  ELSE [e |-> c, ret |-> getElapsedTime(c.plantTime, t) >= Crop_growthDuration(c)]

\* Crop.isMature at time t: the lazy Growing -> Mature transition
Crop_isMature(c, t) ==
  IF c.status # GROWING THEN [e |-> c, ret |-> (c.status = MATURE)]
  ELSE LET isReady == getElapsedTime(c.plantTime, t) >= Crop_growthDuration(c)
       IN  [e |-> IF isReady THEN [c EXCEPT !.status = MATURE] ELSE c, ret |-> isReady]

\* HELPERS.calculatePercentage(current, total), multiplied by total so that
\* it is an integer: 100 * total stands for 100 percent
calculatePercentage(current, total) ==
  IF total = 0 THEN 0
  ELSE IF current >= total THEN 100 * total
  ELSE clamp(current * 100, 0, 100 * total)

\* a getGrowthProgress that neither caps the percentage nor lets
\* calculatePercentage cap it
Crop_getGrowthProgress_Uncapped(c, t) ==
  CASE c.status = SEED -> 0
    [] c.status \in {MATURE, HARVESTED} -> 100 * Crop_growthDuration(c)
    [] OTHER -> getElapsedTime(c.plantTime, t) * 100

\* Crop.getGrowthProgress at time t, multiplied by the growth duration
Crop_getGrowthProgress(c, t) ==
  CASE c.status = SEED -> 0
    [] c.status \in {MATURE, HARVESTED} -> 100 * Crop_growthDuration(c)
    [] OTHER -> Min(100 * Crop_growthDuration(c),
                    calculatePercentage(getElapsedTime(c.plantTime, t), Crop_growthDuration(c)))

\* Crop.harvest at time t
Crop_harvest(c, t) ==
  IF c.status # MATURE THEN [e |-> c, ret |-> FALSE]
  ELSE [e |-> [c EXCEPT !.status = HARVESTED, !.harvestTime = t], ret |-> TRUE]

\* Crop.isHarvested
isHarvested(c) == c.status = HARVESTED

\* The demand multipliers are JavaScript numbers: each literal of the rule
\* table is stored as the IEEE-754 double nearest to it.  DOUBLE[d] is the
\* double of the multiplier d/10: its 53-bit significand in three 18-bit
\* limbs <<a, b, c>> (a * 2^36 + b * 2^18 + c) and the exponent e, the value
\* being significand / 2^e.  1.0, 1.5 and 2.0 are exact, 0.8, 0.9 and 1.3 are
\* stored slightly above, 1.2, 1.4 and 1.7 slightly below their literal.
DOUBLE ==
  [ d \in {8, 9, 10, 12, 13, 14, 15, 17, 20} |->
      CASE d = 8  -> [a |-> 104857, b |-> 157286, c |-> 104858, e |-> 53]
        [] d = 9  -> [a |-> 117964, b |-> 209715, c |-> 52429,  e |-> 53]
        [] d = 10 -> [a |-> 65536,  b |-> 0,      c |-> 0,      e |-> 52]
        [] d = 12 -> [a |-> 78643,  b |-> 52428,  c |-> 209715, e |-> 52]
        [] d = 13 -> [a |-> 85196,  b |-> 209715, c |-> 52429,  e |-> 52]
        [] d = 14 -> [a |-> 91750,  b |-> 104857, c |-> 157286, e |-> 52]
        [] d = 15 -> [a |-> 98304,  b |-> 0,      c |-> 0,      e |-> 52]
        [] d = 17 -> [a |-> 111411, b |-> 52428,  c |-> 209715, e |-> 52]
        [] d = 20 -> [a |-> 65536,  b |-> 0,      c |-> 0,      e |-> 51] ]

\* the radix of a limb
Limb == 2^18

RECURSIVE bitLength(_)
\* the number of binary digits of n
bitLength(n) == IF n = 0 THEN 0 ELSE 1 + bitLength(n \div 2)

\* Math.floor(base * demandIndex) in double arithmetic, for an integer base
\* below 2^12 and the multiplier d/10: the exact product of base and the
\* significand, rounded to 53 significant bits (to nearest, ties to even)
\* as the multiplication of two doubles rounds it, then floored
floorOfProduct(base, d) ==
  LET x  == DOUBLE[d]
      p0 == base * x.c
      c1 == p0 % Limb
      p1 == base * x.b + p0 \div Limb
      b1 == p1 % Limb
      a1 == base * x.a + p1 \div Limb
      s  == 36 + bitLength(a1) - 53
      q  == 2^s
      r  == c1 % q
      up == r * 2 > q \/ (r * 2 = q /\ (c1 \div q) % 2 = 1)
      c2 == IF s <= 0 THEN c1 ELSE c1 - r + (IF up THEN q ELSE 0)
      b2 == b1 + (IF c2 = Limb THEN 1 ELSE 0)
      a2 == a1 + (IF b2 = Limb THEN 1 ELSE 0)
  IN  a2 \div 2^(x.e - 36)

\* Crop.calculateSellPrice: Math.floor(baseSellPrice * demandIndex),
\* demandIndex in tenths; a demand index <= 0 is replaced by 1.0
Crop_calculateSellPrice(c, demandIndex) ==
  LET d == IF demandIndex <= 0 THEN 10 ELSE demandIndex
  IN  floorOfProduct(CROPS[c.type].baseSellPrice, d)

(***************************************************************************)
(* Animal (js/models/Animal.js)                                            *)
(***************************************************************************)
\* new Animal(type, isPurchased) with the generated id
Animal(id, type, isPurchased) ==
  [id |-> id, type |-> type, status |-> YOUNG, placeTime |-> NULL,
   isPurchased |-> isPurchased, hasOffspring |-> FALSE, offspring |-> <<>>,
   breedingAttempted |-> FALSE]

Animal_growthDuration(a) == minutesToMilliseconds(ANIMALS[a.type].growthTime)

\* Animal.place at time t
place(a, t) ==
  IF a.status # YOUNG THEN [e |-> a, ret |-> FALSE]
  ELSE [e |-> [a EXCEPT !.status = GROWING, !.placeTime = t], ret |-> TRUE]

\* Animal.isMature at time t
Animal_isMature(a, t) ==
  IF a.status # GROWING THEN [e |-> a, ret |-> (a.status = MATURE)]
  ELSE LET isReady == getElapsedTime(a.placeTime, t) >= Animal_growthDuration(a)
       IN  [e |-> IF isReady THEN [a EXCEPT !.status = MATURE] ELSE a, ret |-> isReady]

\* a progress test that needs more than the half of the growth time
progressAbove50(a, t) ==
  LET elapsed == getElapsedTime(a.placeTime, t)
      total   == Animal_growthDuration(a)
  IN  CASE a.status = YOUNG  -> FALSE
        [] a.status = MATURE -> TRUE
        [] OTHER -> IF total = 0 THEN FALSE
                    ELSE IF elapsed >= total THEN TRUE
                    ELSE clamp(elapsed * 100, 0, 100 * total) > 50 * total

\* Animal.getGrowthProgress() >= 50 at time t.  calculatePercentage returns
\* 0 for a zero total, 100 once current >= total, else current/total*100
progressAtLeast50(a, t) ==
  LET elapsed == getElapsedTime(a.placeTime, t)
      total   == Animal_growthDuration(a)
  IN  CASE a.status = YOUNG  -> FALSE
        [] a.status = MATURE -> TRUE
        [] OTHER -> IF total = 0 THEN FALSE
                    ELSE IF elapsed >= total THEN TRUE
                    ELSE clamp(elapsed * 100, 0, 100 * total) >= 50 * total

\* Animal.getGrowthProgress at time t, multiplied by the growth duration
Animal_getGrowthProgress(a, t) ==
  CASE a.status = YOUNG  -> 0
    [] a.status = MATURE -> 100 * Animal_growthDuration(a)
    [] OTHER -> Min(100 * Animal_growthDuration(a),
                    calculatePercentage(getElapsedTime(a.placeTime, t), Animal_growthDuration(a)))

\* Animal.canBreed at time t
canBreed(a, t) ==
  IF a.status # GROWING THEN FALSE
  ELSE IF a.breedingAttempted THEN FALSE
  ELSE progressAtLeast50(a, t)

\* the result of an attemptBreeding that did not attempt
NoAttempt ==
  [attempted |-> FALSE, bred |-> FALSE, survived |-> FALSE,
   offspring |-> <<>>, created |-> FALSE]

\* the result of an attemptBreeding at time t that bore the surviving child
Born(child, t, placed) ==
  [attempted |-> TRUE, bred |-> TRUE, survived |-> TRUE,
   offspring |-> << IF placed THEN place(child, t).e ELSE child >>, created |-> TRUE]

\* an attemptBreeding without the check of breedingAttempted
attemptBreeding_Repeat(a, t, breedingSuccess, survivalSuccess, childId) ==
  IF a.status # GROWING THEN [e |-> a, result |-> NoAttempt]
  ELSE LET a1 == [a EXCEPT !.breedingAttempted = TRUE]
           child == Animal(childId, a.type, FALSE)
       IN  IF ~breedingSuccess
           THEN [e |-> a1, result |-> [NoAttempt EXCEPT !.attempted = TRUE]]
           ELSE IF ~survivalSuccess
           THEN [e |-> [a1 EXCEPT !.hasOffspring = TRUE],
                 result |-> [NoAttempt EXCEPT !.attempted = TRUE, !.bred = TRUE,
                                              !.created = TRUE]]
           ELSE [e |-> [a1 EXCEPT !.hasOffspring = TRUE, !.offspring = Append(@, childId)],
                 result |-> Born(child, t, TRUE)]

\* an attemptBreeding that ignores the survival draw
attemptBreeding_AlwaysSurvives(a, t, breedingSuccess, survivalSuccess, childId) ==
  IF a.breedingAttempted \/ a.status # GROWING THEN [e |-> a, result |-> NoAttempt]
  ELSE LET a1 == [a EXCEPT !.breedingAttempted = TRUE]
           child == Animal(childId, a.type, FALSE)
       IN  IF ~breedingSuccess
           THEN [e |-> a1, result |-> [NoAttempt EXCEPT !.attempted = TRUE]]
           ELSE [e |-> [a1 EXCEPT !.hasOffspring = TRUE, !.offspring = Append(@, childId)],
                 result |-> Born(child, t, TRUE)]

\* an attemptBreeding that does not place the offspring
attemptBreeding_NoPlace(a, t, breedingSuccess, survivalSuccess, childId) ==
  IF a.breedingAttempted \/ a.status # GROWING THEN [e |-> a, result |-> NoAttempt]
  ELSE LET a1 == [a EXCEPT !.breedingAttempted = TRUE]
           child == Animal(childId, a.type, FALSE)
       IN  IF ~breedingSuccess
           THEN [e |-> a1, result |-> [NoAttempt EXCEPT !.attempted = TRUE]]
           ELSE IF ~survivalSuccess
           THEN [e |-> [a1 EXCEPT !.hasOffspring = TRUE],
                 result |-> [NoAttempt EXCEPT !.attempted = TRUE, !.bred = TRUE,
                                              !.created = TRUE]]
           ELSE [e |-> [a1 EXCEPT !.hasOffspring = TRUE, !.offspring = Append(@, childId)],
                 result |-> Born(child, t, FALSE)]

\* Animal.attemptBreeding at time t.  breedingSuccess and survivalSuccess
\* are the two HELPERS.randomBoolean draws, childId the id generated for
\* the offspring.  created tells whether new Animal(...) ran.
attemptBreeding(a, t, breedingSuccess, survivalSuccess, childId) ==
  LET none == [attempted |-> FALSE, bred |-> FALSE, survived |-> FALSE,
               offspring |-> <<>>, created |-> FALSE]
  IN  IF a.breedingAttempted THEN [e |-> a, result |-> none]
      ELSE IF a.status # GROWING THEN [e |-> a, result |-> none]
      ELSE LET a1 == [a EXCEPT !.breedingAttempted = TRUE]
           IN  IF ~breedingSuccess
               THEN [e |-> a1, result |-> [none EXCEPT !.attempted = TRUE]]
               ELSE LET a2 == [a1 EXCEPT !.hasOffspring = TRUE]
                        child == Animal(childId, a.type, FALSE)
                    IN  IF ~survivalSuccess
                        THEN [e |-> a2,
                              result |-> [none EXCEPT !.attempted = TRUE, !.bred = TRUE,
                                                      !.created = TRUE]]
                        ELSE [e |-> [a2 EXCEPT !.offspring = Append(@, childId)],
                              result |-> [attempted |-> TRUE, bred |-> TRUE,
                                          survived |-> TRUE,
                                          offspring |-> << place(child, t).e >>,
                                          created |-> TRUE]]

\* Animal.calculateSellPrice
Animal_calculateSellPrice(a, demandIndex) ==
  LET d == IF demandIndex <= 0 THEN 10 ELSE demandIndex
  IN  floorOfProduct(ANIMALS[a.type].baseSellPrice, d)

(***************************************************************************)
(* GameState (.idea/js/models/GameState.js): the Ledger.  An operation     *)
(* applied to the ledger record g yields the ledger after the call (g),    *)
(* the returned value (ret), whether the call threw (threw) and the        *)
(* notifications it dispatched (ev).                                       *)
(***************************************************************************)
\* the state set up by the GameState constructor, with the forecast draws
NewGameState(draws) ==
  [ currentMoney |-> STARTING_MONEY,
    currentDay |-> 1,
    goalMoney |-> GOAL_MONEY,
    gameStatus |-> PLAYING,
    weatherForecast |-> generateForecast(WEATHER_FORECAST_DAYS, 1, draws),
    seeds |-> <<>>, crops |-> <<>>, harvestedCrops |-> <<>>,
    youngAnimals |-> <<>>, animals |-> <<>>,
    statistics |-> [ totalCropsSold |-> 0, totalAnimalsSold |-> 0,
                     totalCropsPurchased |-> 0, totalAnimalsPurchased |-> 0,
                     totalMoneyEarned |-> 0, totalMoneySpent |-> 0,
                     bestSingleSale |-> 0, totalOffspringBorn |-> 0,
                     successfulBreedings |-> 0 ],
    milestonesReached |-> <<>> ]

Ev(name, subject) == [name |-> name, subject |-> subject]

Includes(s, x) == \E i \in 1..Len(s) : s[i] = x

RECURSIVE checkMilestonesFrom_Above(_, _)
\* a milestone scan that takes a milestone as reached only above its amount
checkMilestonesFrom_Above(r, i) ==
  IF i > Len(MILESTONES) THEN r
  ELSE IF Includes(r.g.milestonesReached, MILESTONES[i])
       THEN checkMilestonesFrom_Above(r, i + 1)
  ELSE IF r.g.currentMoney > MILESTONES[i]
       THEN checkMilestonesFrom_Above(
              [g  |-> [r.g EXCEPT !.milestonesReached = Append(@, MILESTONES[i])],
               ev |-> Append(r.ev, Ev("milestone-reached", MILESTONES[i]))], i + 1)
       ELSE checkMilestonesFrom_Above(r, i + 1)

RECURSIVE checkMilestonesFrom(_, _)
\* the loop of _checkMilestones from the i-th configured milestone on;
\* _reachMilestone pushes the amount and dispatches MILESTONE_REACHED
checkMilestonesFrom(r, i) ==
  IF i > Len(MILESTONES) THEN r
  ELSE IF Includes(r.g.milestonesReached, MILESTONES[i]) THEN checkMilestonesFrom(r, i + 1)
  ELSE IF r.g.currentMoney >= MILESTONES[i]
       THEN checkMilestonesFrom(
              [g  |-> [r.g EXCEPT !.milestonesReached = Append(@, MILESTONES[i])],
               ev |-> Append(r.ev, Ev("milestone-reached", MILESTONES[i]))], i + 1)
       ELSE checkMilestonesFrom(r, i + 1)

RECURSIVE renotifyMilestonesFrom(_, _)
\* a milestone loop that does not skip the amounts already reached
renotifyMilestonesFrom(r, i) ==
  IF i > Len(MILESTONES) THEN r
  ELSE IF r.g.currentMoney >= MILESTONES[i]
       THEN renotifyMilestonesFrom(
              [g  |-> [r.g EXCEPT !.milestonesReached = Append(@, MILESTONES[i])],
               ev |-> Append(r.ev, Ev("milestone-reached", MILESTONES[i]))], i + 1)
       ELSE renotifyMilestonesFrom(r, i + 1)

\* a milestone check that notifies a reached milestone again
checkMilestones_Renotify(g) == renotifyMilestonesFrom([g |-> g, ev |-> <<>>], 1)

\* GameState._checkMilestones
_checkMilestones(g) == checkMilestonesFrom([g |-> g, ev |-> <<>>], 1)

\* GameState.isGameOver
isGameOver(g) == g.gameStatus = WON \/ g.gameStatus = LOST

\* a win check that needs more than the goal
checkWinCondition_Strict(g) ==
  IF g.gameStatus # PLAYING THEN [g |-> g, ev |-> <<>>]
  ELSE IF g.currentMoney > g.goalMoney
       THEN [g |-> [g EXCEPT !.gameStatus = WON], ev |-> << Ev("game-won", 0) >>]
       ELSE [g |-> g, ev |-> <<>>]

\* GameState._checkWinCondition (with _setGameWon)
_checkWinCondition(g) ==
  IF g.gameStatus # PLAYING THEN [g |-> g, ev |-> <<>>]
  ELSE IF g.currentMoney >= g.goalMoney
       THEN [g |-> [g EXCEPT !.gameStatus = WON], ev |-> << Ev("game-won", 0) >>]
       ELSE [g |-> g, ev |-> <<>>]

\* GameState._checkLoseCondition (with _setGameLost)
_checkLoseCondition(g) ==
  IF g.gameStatus # PLAYING THEN [g |-> g, ev |-> <<>>]
  ELSE IF g.currentDay > TOTAL_DAYS /\ g.currentMoney < g.goalMoney
       THEN [g |-> [g EXCEPT !.gameStatus = LOST], ev |-> << Ev("game-lost", 0) >>]
       ELSE [g |-> g, ev |-> <<>>]

\* an addMoney that does not book the amount as earned
addMoney_Unbooked(g, amount) ==
  IF ~isValidNumber(amount) \/ amount < 0
  THEN [g |-> g, ret |-> "false", threw |-> FALSE, ev |-> <<>>]
  ELSE LET g1 == [g EXCEPT !.currentMoney = @ + amount]
           m  == _checkMilestones(g1)
           w  == _checkWinCondition(m.g)
       IN  [g |-> w.g, ret |-> "true", threw |-> FALSE, ev |-> m.ev \o w.ev]

\* GameState.addMoney
addMoney(g, amount) ==
  IF ~isValidNumber(amount) \/ amount < 0
  THEN [g |-> g, ret |-> "false", threw |-> FALSE, ev |-> <<>>]
  ELSE LET g1 == [g EXCEPT !.currentMoney = @ + amount,
                           !.statistics.totalMoneyEarned = @ + amount,
                           !.statistics.bestSingleSale = IF amount > @ THEN amount ELSE @]
           m  == _checkMilestones(g1)
           w  == _checkWinCondition(m.g)
       IN  [g |-> w.g, ret |-> "true", threw |-> FALSE, ev |-> m.ev \o w.ev]

\* a deductMoney without the check of the balance
deductMoney_Overdraw(g, amount) ==
  IF ~isValidNumber(amount) \/ amount < 0
  THEN [g |-> g, ret |-> "false", threw |-> FALSE, ev |-> <<>>]
  ELSE [g |-> [g EXCEPT !.currentMoney = @ - amount,
                        !.statistics.totalMoneySpent = @ + amount],
        ret |-> "true", threw |-> FALSE, ev |-> <<>>]

\* a deductMoney that takes one more than the amount
deductMoney_OneMore(g, amount) ==
  IF ~isValidNumber(amount) \/ amount < 0
  THEN [g |-> g, ret |-> "false", threw |-> FALSE, ev |-> <<>>]
  ELSE IF g.currentMoney < amount
  THEN [g |-> g, ret |-> "false", threw |-> FALSE, ev |-> <<>>]
  ELSE [g |-> [g EXCEPT !.currentMoney = @ - (amount + 1),
                        !.statistics.totalMoneySpent = @ + amount],
        ret |-> "true", threw |-> FALSE, ev |-> <<>>]

\* GameState.deductMoney
deductMoney(g, amount) ==
  IF ~isValidNumber(amount) \/ amount < 0
  THEN [g |-> g, ret |-> "false", threw |-> FALSE, ev |-> <<>>]
  ELSE IF g.currentMoney < amount
  THEN [g |-> g, ret |-> "false", threw |-> FALSE, ev |-> <<>>]
  ELSE [g |-> [g EXCEPT !.currentMoney = @ - amount,
                        !.statistics.totalMoneySpent = @ + amount],
        ret |-> "true", threw |-> FALSE, ev |-> <<>>]

\* GameState.canAfford
canAfford(g, amount) == isValidNumber(amount) /\ g.currentMoney >= amount

\* GameState.getCurrentWeather: the first forecast entry of the current
\* day as a one-element sequence, the empty sequence for null
getCurrentWeather(g) ==
  LET hits == SelectSeq(g.weatherForecast, LAMBDA w : w.day = g.currentDay)
  IN  IF hits = <<>> THEN <<>> ELSE << Head(hits) >>

\* GameState._updateWeatherForecast with the drawn value of the new entry.
\* When no entry is left after the filter, weatherForecast[length - 1] is
\* undefined and reading its day throws a TypeError; the filtered forecast
\* has already been assigned.
_updateWeatherForecast(g, draw) ==
  LET kept == SelectSeq(g.weatherForecast, LAMBDA w : w.day >= g.currentDay)
      g1   == [g EXCEPT !.weatherForecast = kept]
  IN  IF kept = <<>> THEN [g |-> g1, threw |-> TRUE]
      ELSE [g |-> [g1 EXCEPT !.weatherForecast =
                        Append(kept, Weather(kept[Len(kept)].day + 1, draw))],
            threw |-> FALSE]

\* an advanceDay without the status guard
advanceDay_Unguarded(g, draw) ==
  LET g1 == [g EXCEPT !.currentDay = @ + 1]
      u  == _updateWeatherForecast(g1, draw)
  IN  IF u.threw
      THEN [g |-> u.g, ret |-> "throws", threw |-> TRUE, ev |-> <<>>]
      ELSE LET l == _checkLoseCondition(u.g)
           IN  [g |-> l.g, ret |-> "undefined", threw |-> FALSE,
                ev |-> l.ev \o << Ev("day-advanced", l.g.currentDay) >>]

\* GameState.advanceDay with the weather draw of the new forecast entry
advanceDay(g, draw) ==
  IF g.gameStatus # PLAYING
  THEN [g |-> g, ret |-> "undefined", threw |-> FALSE, ev |-> <<>>]
  ELSE LET g1 == [g EXCEPT !.currentDay = @ + 1]
           u  == _updateWeatherForecast(g1, draw)
       IN  IF u.threw
           THEN [g |-> u.g, ret |-> "throws", threw |-> TRUE, ev |-> <<>>]
           ELSE LET l == _checkLoseCondition(u.g)
                IN  [g |-> l.g, ret |-> "undefined", threw |-> FALSE,
                     ev |-> l.ev \o << Ev("day-advanced", l.g.currentDay) >>]

Done(g, ret) == [g |-> g, ret |-> ret, threw |-> FALSE, ev |-> <<>>]

\* GameState.addSeed
addSeed(g, crop) ==
  Done([g EXCEPT !.seeds = Append(@, crop),
                 !.statistics.totalCropsPurchased = @ + 1], "undefined")

\* a plantCrop that leaves the seed among the seeds
plantCrop_Copy(g, cropId, t) ==
  LET seedIndex == findIndex(g.seeds, cropId)
  IN  IF seedIndex = 0 THEN Done(g, "false")
      ELSE Done([g EXCEPT !.crops = Append(@, Crop_plant(g.seeds[seedIndex], t).e)], "true")

\* GameState.plantCrop at time t
plantCrop(g, cropId, t) ==
  LET seedIndex == findIndex(g.seeds, cropId)
  IN  IF seedIndex = 0 THEN Done(g, "false")
      ELSE LET crop == g.seeds[seedIndex]
           IN  Done([g EXCEPT !.seeds = splice(@, seedIndex),
                              !.crops = Append(@, Crop_plant(crop, t).e)], "true")

\* a harvestCrop without the maturity check
harvestCrop_Unripe(g, cropId, t) ==
  LET cropIndex == findIndex(g.crops, cropId)
  IN  IF cropIndex = 0 THEN Done(g, "false")
      ELSE Done([g EXCEPT !.crops = splice(@, cropIndex),
                          !.harvestedCrops =
                            Append(@, [g.crops[cropIndex] EXCEPT !.status = HARVESTED,
                                                                 !.harvestTime = t])],
                "true")

\* GameState.harvestCrop at time t
harvestCrop(g, cropId, t) ==
  LET cropIndex == findIndex(g.crops, cropId)
  IN  IF cropIndex = 0 THEN Done(g, "false")
      ELSE LET m == Crop_isMature(g.crops[cropIndex], t)
           IN  IF ~m.ret THEN Done([g EXCEPT !.crops[cropIndex] = m.e], "false")
               ELSE Done([g EXCEPT !.crops = splice(@, cropIndex),
                                   !.harvestedCrops = Append(@, Crop_harvest(m.e, t).e)],
                         "true")

\* a sellCrop that does not count the sale
sellCrop_Uncounted(g, cropId) ==
  LET cropIndex == findIndex(g.harvestedCrops, cropId)
  IN  IF cropIndex = 0 THEN Done(g, "null")
      ELSE Done([g EXCEPT !.harvestedCrops = splice(@, cropIndex)], "object")

\* GameState.sellCrop
sellCrop(g, cropId) ==
  LET cropIndex == findIndex(g.harvestedCrops, cropId)
  IN  IF cropIndex = 0 THEN Done(g, "null")
      ELSE Done([g EXCEPT !.harvestedCrops = splice(@, cropIndex),
                          !.statistics.totalCropsSold = @ + 1], "object")

\* GameState.addYoungAnimal
addYoungAnimal(g, animal) ==
  Done([g EXCEPT !.youngAnimals = Append(@, animal),
                 !.statistics.totalAnimalsPurchased = @ + 1], "undefined")

\* a placeAnimal that moves the animal without placing it
placeAnimal_Unplaced(g, animalId, t) ==
  LET animalIndex == findIndex(g.youngAnimals, animalId)
  IN  IF animalIndex = 0 THEN Done(g, "false")
      ELSE Done([g EXCEPT !.youngAnimals = splice(@, animalIndex),
                          !.animals = Append(@, g.youngAnimals[animalIndex])], "true")

\* GameState.placeAnimal at time t
placeAnimal(g, animalId, t) ==
  LET animalIndex == findIndex(g.youngAnimals, animalId)
  IN  IF animalIndex = 0 THEN Done(g, "false")
      ELSE LET animal == g.youngAnimals[animalIndex]
           IN  Done([g EXCEPT !.youngAnimals = splice(@, animalIndex),
                              !.animals = Append(@, place(animal, t).e)], "true")

\* GameState.sellAnimal at time t
sellAnimal(g, animalId, t) ==
  LET animalIndex == findIndex(g.animals, animalId)
  IN  IF animalIndex = 0 THEN Done(g, "null")
      ELSE LET m == Animal_isMature(g.animals[animalIndex], t)
           IN  IF ~m.ret THEN Done([g EXCEPT !.animals[animalIndex] = m.e], "null")
               ELSE Done([g EXCEPT !.animals = splice(@, animalIndex),
                                   !.statistics.totalAnimalsSold = @ + 1], "object")

\* an addOffspringToFarm that keeps to the animal slots
addOffspringToFarm_Capped(g, offspring) ==
  IF Len(g.animals) >= MAX_ANIMAL_SLOTS THEN Done(g, "undefined")
  ELSE Done([g EXCEPT !.animals = Append(@, offspring),
                      !.statistics.totalOffspringBorn = @ + 1,
                      !.statistics.successfulBreedings = @ + 1], "undefined")

\* GameState.addOffspringToFarm
addOffspringToFarm(g, offspring) ==
  Done([g EXCEPT !.animals = Append(@, offspring),
                 !.statistics.totalOffspringBorn = @ + 1,
                 !.statistics.successfulBreedings = @ + 1], "undefined")

\* Weather.toJSON: the stored fields
Weather_toJSON(w) ==
  [day |-> w.day, weatherValue |-> w.weatherValue, demandIndex |-> w.demandIndex]

\* Weather.fromJSON: a new Weather of the stored day (1 when it is 0) and
\* value; the demand index is computed again
Weather_fromJSON(json) ==
  Weather(IF json.day = 0 THEN 1 ELSE json.day, json.weatherValue)

\* Crop.toJSON
Crop_toJSON(c) ==
  [id |-> c.id, type |-> c.type, status |-> c.status,
   plantTime |-> c.plantTime, harvestTime |-> c.harvestTime]

\* Crop.fromJSON: a new Crop of the stored type with the stored id, status
\* and times (a stored 0 or null time becomes null)
Crop_fromJSON(json) ==
  [Crop(json.id, json.type) EXCEPT
     !.status = json.status,
     !.plantTime = IF json.plantTime = 0 THEN NULL ELSE json.plantTime,
     !.harvestTime = IF json.harvestTime = 0 THEN NULL ELSE json.harvestTime]

\* Animal.toJSON: the offspring are stored by their ids
Animal_toJSON(a) ==
  [id |-> a.id, type |-> a.type, status |-> a.status, placeTime |-> a.placeTime,
   isPurchased |-> a.isPurchased, hasOffspring |-> a.hasOffspring,
   breedingAttempted |-> a.breedingAttempted, offspringIds |-> a.offspring]

\* Animal.fromJSON: a new Animal of the stored type; its offspring array
\* stays as the constructor left it
Animal_fromJSON(json) ==
  [Animal(json.id, json.type, json.isPurchased) EXCEPT
     !.status = json.status,
     !.placeTime = IF json.placeTime = 0 THEN NULL ELSE json.placeTime,
     !.hasOffspring = json.hasOffspring,
     !.breedingAttempted = json.breedingAttempted]

\* s with f applied to every element
Map(s, f(_)) == [i \in 1..Len(s) |-> f(s[i])]

\* GameState.toJSON
toJSON(g) ==
  [ currentMoney |-> g.currentMoney,
    currentDay |-> g.currentDay,
    goalMoney |-> g.goalMoney,
    gameStatus |-> g.gameStatus,
    weatherForecast |-> Map(g.weatherForecast, Weather_toJSON),
    inventory |-> [ seeds |-> Map(g.seeds, Crop_toJSON),
                    crops |-> Map(g.crops, Crop_toJSON),
                    harvestedCrops |-> Map(g.harvestedCrops, Crop_toJSON),
                    youngAnimals |-> Map(g.youngAnimals, Animal_toJSON),
                    animals |-> Map(g.animals, Animal_toJSON) ],
    statistics |-> g.statistics,
    milestonesReached |-> g.milestonesReached ]

\* GameState.fromJSON: a fresh instance whose fields are overwritten by
\* the stored ones; `json.x || default` takes the default for a stored 0
fromJSON(json) ==
  [ currentMoney |-> IF json.currentMoney = 0 THEN STARTING_MONEY ELSE json.currentMoney,
    currentDay |-> IF json.currentDay = 0 THEN 1 ELSE json.currentDay,
    goalMoney |-> IF json.goalMoney = 0 THEN GOAL_MONEY ELSE json.goalMoney,
    gameStatus |-> json.gameStatus,
    weatherForecast |-> Map(json.weatherForecast, Weather_fromJSON),
    seeds |-> Map(json.inventory.seeds, Crop_fromJSON),
    crops |-> Map(json.inventory.crops, Crop_fromJSON),
    harvestedCrops |-> Map(json.inventory.harvestedCrops, Crop_fromJSON),
    youngAnimals |-> Map(json.inventory.youngAnimals, Animal_fromJSON),
    animals |-> Map(json.inventory.animals, Animal_fromJSON),
    statistics |-> json.statistics,
    milestonesReached |-> json.milestonesReached ]

\* GameState.canPlantMoreCrops
canPlantMoreCrops(g) == Len(g.crops) < MAX_CROP_SLOTS

\* a capacity query that still answers true when every slot is taken
canPlaceMoreAnimals_Inclusive(g) == Len(g.animals) <= MAX_ANIMAL_SLOTS

\* GameState.canPlaceMoreAnimals
canPlaceMoreAnimals(g) == Len(g.animals) < MAX_ANIMAL_SLOTS

(***************************************************************************)
(* The transaction facade: ShopManager (js/managers/ShopManager.js) and    *)
(* FarmManager.  A facade operation yields the ledger after the call (g),  *)
(* result.success (ret, "true" or "false"), the refusal it reports (msg),  *)
(* the notifications dispatched (ev) and whether an entity was             *)
(* constructed, which consumes a generated id (created).                   *)
(***************************************************************************)
Fail(g, msg) == [g |-> g, ret |-> "false", msg |-> msg, threw |-> FALSE,
                 ev |-> <<>>, created |-> FALSE]

Success(g, ev, created) == [g |-> g, ret |-> "true", msg |-> "", threw |-> FALSE,
                            ev |-> ev, created |-> created]

\* Crop.getCropDefinition(type) # null
hasCropDefinition(type) == type \in DOMAIN CROPS

\* Animal.getAnimalDefinition(type) # null
hasAnimalDefinition(type) == type \in DOMAIN ANIMALS

\* ShopManager.buySeed; id is the id generated for the new Crop
ShopManager_buySeed(g, cropType, id) ==
  IF isGameOver(g) THEN Fail(g, "GAME_OVER")
  ELSE IF ~hasCropDefinition(cropType) THEN Fail(g, "INVALID_ITEM")
  ELSE IF ~canAfford(g, CROPS[cropType].seedCost) THEN Fail(g, "NOT_ENOUGH_MONEY")
  ELSE LET d == deductMoney(g, CROPS[cropType].seedCost)
       IN  IF d.ret # "true" THEN Fail(d.g, "Failed to complete purchase")
           ELSE Success(addSeed(d.g, Crop(id, cropType)).g,
                        << Ev("item-purchased", id) >>, TRUE)

\* ShopManager.sellCrop
ShopManager_sellCrop(g, cropId) ==
  LET i == findIndex(g.harvestedCrops, cropId)
  IN  IF isGameOver(g) THEN Fail(g, "GAME_OVER")
      ELSE IF i = 0 THEN Fail(g, "Crop not found in inventory")
      ELSE IF ~isHarvested(g.harvestedCrops[i]) THEN Fail(g, "ALREADY_HARVESTED")
      ELSE IF getCurrentWeather(g) = <<>> THEN Fail(g, "Unable to determine current weather")
      ELSE LET sellPrice == Crop_calculateSellPrice(g.harvestedCrops[i],
                                                    getCurrentWeather(g)[1].demandIndex)
               sold == sellCrop(g, cropId)
           IN  IF sold.ret = "null" THEN Fail(sold.g, "Failed to sell crop")
               ELSE LET a == addMoney(sold.g, sellPrice)
                    IN  Success(a.g, a.ev \o << Ev("item-sold", cropId) >>, FALSE)

RECURSIVE sellAllFrom(_, _, _)
\* the forEach of sellAllHarvestedCrops from index k on, over an array of
\* len elements when the loop began.  The array is the Ledger's own
\* harvestedCrops (getHarvestedCrops returns it, not a copy), so every sale
\* shortens it under the loop; forEach visits the index k only while the
\* array still has an element there
sellAllFrom(r, k, len) ==
  IF k > len THEN r
  ELSE IF k > Len(r.g.harvestedCrops) THEN sellAllFrom(r, k + 1, len)
  ELSE LET sale == ShopManager_sellCrop(r.g, r.g.harvestedCrops[k].id)
       IN  sellAllFrom([g |-> sale.g,
                        count |-> IF sale.ret = "true" THEN r.count + 1 ELSE r.count,
                        ev |-> r.ev \o sale.ev],
                       k + 1, len)

\* ShopManager.sellAllHarvestedCrops
ShopManager_sellAllHarvestedCrops(g) ==
  IF g.harvestedCrops = <<>>
  THEN [g |-> g, ret |-> "false", msg |-> "No crops to sell", threw |-> FALSE,
        ev |-> <<>>, created |-> FALSE, count |-> 0]
  ELSE LET r == sellAllFrom([g |-> g, count |-> 0, ev |-> <<>>], 1, Len(g.harvestedCrops))
       IN  [g |-> r.g, ret |-> IF r.count > 0 THEN "true" ELSE "false", msg |-> "",
            threw |-> FALSE, ev |-> r.ev, created |-> FALSE, count |-> r.count]

\* ShopManager.buyAnimal; id is the id generated for the new Animal
ShopManager_buyAnimal(g, animalType, id) ==
  IF isGameOver(g) THEN Fail(g, "GAME_OVER")
  ELSE IF ~hasAnimalDefinition(animalType) THEN Fail(g, "INVALID_ITEM")
  ELSE IF ~canAfford(g, ANIMALS[animalType].purchaseCost) THEN Fail(g, "NOT_ENOUGH_MONEY")
  ELSE LET d == deductMoney(g, ANIMALS[animalType].purchaseCost)
       IN  IF d.ret # "true" THEN Fail(d.g, "Failed to complete purchase")
           ELSE Success(addYoungAnimal(d.g, Animal(id, animalType, TRUE)).g,
                        << Ev("item-purchased", id) >>, TRUE)

\* ShopManager.sellAnimal at time t.  animal.isMature() acts on the object
\* held by the inventory, so its lazy transition stays when a later check
\* refuses the sale.
ShopManager_sellAnimal(g, animalId, t) ==
  LET i == findIndex(g.animals, animalId)
  IN  IF isGameOver(g) THEN Fail(g, "GAME_OVER")
      ELSE IF i = 0 THEN Fail(g, "Animal not found on farm")
      ELSE LET m  == Animal_isMature(g.animals[i], t)
               g1 == [g EXCEPT !.animals[i] = m.e]
           IN  IF ~m.ret THEN Fail(g1, "NOT_MATURE")
               ELSE IF getCurrentWeather(g1) = <<>>
                    THEN Fail(g1, "Unable to determine current weather")
               ELSE LET sellPrice == Animal_calculateSellPrice(m.e,
                                        getCurrentWeather(g1)[1].demandIndex)
                        sold == sellAnimal(g1, animalId, t)
                    IN  IF sold.ret = "null" THEN Fail(sold.g, "Failed to sell animal")
                        ELSE LET a == addMoney(sold.g, sellPrice)
                             IN  Success(a.g, a.ev \o << Ev("item-sold", animalId) >>, FALSE)

\* FarmManager.plantCrop at time t
FarmManager_plantCrop(g, cropId, t) ==
  IF isGameOver(g) THEN Fail(g, "GAME_OVER")
  ELSE IF ~canPlantMoreCrops(g) THEN Fail(g, "NO_SPACE_CROPS")
  ELSE IF findIndex(g.seeds, cropId) = 0 THEN Fail(g, "Seed not found in inventory")
  ELSE LET p == plantCrop(g, cropId, t)
       IN  IF p.ret # "true" THEN Fail(p.g, "Failed to plant crop")
           ELSE Success(p.g, << Ev("crop-planted", cropId) >>, FALSE)

\* a harvest command that trusts the stored status instead of asking
\* isMature
FarmManager_harvestCrop_Stale(g, cropId, t) ==
  LET i == findIndex(g.crops, cropId)
  IN  IF isGameOver(g) THEN Fail(g, "GAME_OVER")
      ELSE IF i = 0 THEN Fail(g, "Crop not found on farm")
      ELSE IF g.crops[i].status # MATURE THEN Fail(g, "NOT_MATURE")
      ELSE LET h == harvestCrop(g, cropId, t)
           IN  IF h.ret # "true" THEN Fail(h.g, "Failed to harvest crop")
               ELSE Success(h.g, << Ev("crop-harvested", cropId) >>, FALSE)

\* FarmManager.harvestCrop at time t
FarmManager_harvestCrop(g, cropId, t) ==
  LET i == findIndex(g.crops, cropId)
  IN  IF isGameOver(g) THEN Fail(g, "GAME_OVER")
      ELSE IF i = 0 THEN Fail(g, "Crop not found on farm")
      ELSE LET m  == Crop_isMature(g.crops[i], t)
               g1 == [g EXCEPT !.crops[i] = m.e]
           IN  IF ~m.ret THEN Fail(g1, "NOT_MATURE")
               ELSE LET h == harvestCrop(g1, cropId, t)
                    IN  IF h.ret # "true" THEN Fail(h.g, "Failed to harvest crop")
                        ELSE Success(h.g, << Ev("crop-harvested", cropId) >>, FALSE)

\* FarmManager.placeAnimal at time t
FarmManager_placeAnimal(g, animalId, t) ==
  IF isGameOver(g) THEN Fail(g, "GAME_OVER")
  ELSE IF ~canPlaceMoreAnimals(g) THEN Fail(g, "NO_SPACE_ANIMALS")
  ELSE IF findIndex(g.youngAnimals, animalId) = 0 THEN Fail(g, "Animal not found in inventory")
  ELSE LET p == placeAnimal(g, animalId, t)
       IN  IF p.ret # "true" THEN Fail(p.g, "Failed to place animal")
           ELSE Success(p.g, << Ev("animal-placed", animalId) >>, FALSE)

(***************************************************************************)
(* TimerManager (.idea/js/managers/TimerManager.js): the simulation clock. *)
(* mainLoopTimer and dayTimer are the stored interval handles (NULL or a   *)
(* handle, written 1); liveGrowth and liveDay count the intervals that     *)
(* setInterval has scheduled and clearInterval has not yet cleared;        *)
(* dayDue is the time at which the day interval fires next.  The field     *)
(* currentDayStartTime only feeds the day progress bar and is left out.    *)
(***************************************************************************)
HANDLE == 1

\* the day interval length of _startDayTimer (TESTING_MODE is false)
dayDurationMs == minutesToMilliseconds(DAY_DURATION_MINUTES)

\* the state set up by the TimerManager constructor; the growth interval
\* (TIMING.TIMER_UPDATE_INTERVAL, one second) is shorter than any step of
\* the wall clock, so the growth tick can fire whenever it is scheduled
NewTimerManager ==
  [ mainLoopTimer |-> NULL, dayTimer |-> NULL, isRunning |-> FALSE,
    liveGrowth |-> 0, liveDay |-> 0, dayDue |-> NULL ]

\* a start that schedules without looking at isRunning
start_Unguarded(m, t) ==
  [m EXCEPT !.mainLoopTimer = HANDLE, !.liveGrowth = @ + 1,
            !.dayTimer = HANDLE, !.liveDay = @ + 1, !.dayDue = t + dayDurationMs,
            !.isRunning = TRUE]

\* TimerManager.start at time t (with _startDayTimer)
start(m, t) ==
  IF m.isRunning THEN m
  ELSE [m EXCEPT !.mainLoopTimer = HANDLE, !.liveGrowth = @ + 1,
                 !.dayTimer = HANDLE, !.liveDay = @ + 1, !.dayDue = t + dayDurationMs,
                 !.isRunning = TRUE]

\* TimerManager.stop
stop(m) ==
  IF ~m.isRunning THEN m
  ELSE LET m1 == IF m.mainLoopTimer # NULL
                 THEN [m EXCEPT !.mainLoopTimer = NULL, !.liveGrowth = @ - 1]
                 ELSE m
           m2 == IF m1.dayTimer # NULL
                 THEN [m1 EXCEPT !.dayTimer = NULL, !.liveDay = @ - 1, !.dayDue = NULL]
                 ELSE m1
       IN  [m2 EXCEPT !.isRunning = FALSE]

\* TimerManager.pause
pause(m) == stop(m)

\* a resume whose day tick is due at once
resume_Immediate(m, t) == [start(m, t) EXCEPT !.dayDue = t]

\* TimerManager.resume at time t
resume(m, t) == start(m, t)

RECURSIVE updateCropsFrom_Always(_, _, _)
\* a crop sweep that dispatches for every crop isMature reports mature,
\* whatever its status was before the call
updateCropsFrom_Always(r, i, t) ==
  IF i > Len(r.g.crops) THEN r
  ELSE LET m == Crop_isMature(r.g.crops[i], t)
       IN  updateCropsFrom_Always(
             [g  |-> [r.g EXCEPT !.crops[i] = m.e],
              ev |-> IF m.ret
                     THEN Append(r.ev, Ev("crop-matured", r.g.crops[i].id)) ELSE r.ev],
             i + 1, t)

RECURSIVE updateCropsFrom(_, _, _)
\* the forEach of _updateCrops from the i-th growing crop on, at time t
updateCropsFrom(r, i, t) ==
  IF i > Len(r.g.crops) THEN r
  ELSE LET wasGrowing == r.g.crops[i].status = GROWING
           m == Crop_isMature(r.g.crops[i], t)
       IN  updateCropsFrom(
             [g  |-> [r.g EXCEPT !.crops[i] = m.e],
              ev |-> IF wasGrowing /\ m.ret
                     THEN Append(r.ev, Ev("crop-matured", r.g.crops[i].id)) ELSE r.ev],
             i + 1, t)

\* TimerManager._updateCrops at time t
_updateCrops(g, t) == updateCropsFrom([g |-> g, ev |-> <<>>], 1, t)

RECURSIVE updateAnimalsFrom_BreedFirst(_, _, _, _, _)
\* an animal sweep that looks at breeding before it asks isMature
updateAnimalsFrom_BreedFirst(r, i, n, t, draws) ==
  IF i > n THEN r
  ELSE LET a0 == r.g.animals[i]
           wasGrowing == a0.status = GROWING
           m  == Animal_isMature(a0, t)
           ev1 == IF wasGrowing /\ m.ret
                  THEN Append(r.ev, Ev("animal-matured", m.e.id)) ELSE r.ev
       IN  IF a0.status = GROWING /\ canBreed(a0, t)
           THEN LET b   == attemptBreeding(a0, t, draws[i].breed, draws[i].survive,
                                           r.nid + 1)
                    nid == IF b.result.created THEN r.nid + 1 ELSE r.nid
                    g1  == [r.g EXCEPT !.animals[i] = Animal_isMature(b.e, t).e]
                IN  IF b.result.attempted /\ b.result.bred /\ b.result.survived
                       /\ b.result.offspring # <<>>
                    THEN updateAnimalsFrom_BreedFirst(
                           [g   |-> addOffspringToFarm(g1, b.result.offspring[1]).g,
                            ev  |-> Append(ev1, Ev("animal-bred", m.e.id)),
                            nid |-> nid], i + 1, n, t, draws)
                    ELSE updateAnimalsFrom_BreedFirst([g |-> g1, ev |-> ev1, nid |-> nid],
                                                      i + 1, n, t, draws)
           ELSE updateAnimalsFrom_BreedFirst([g |-> [r.g EXCEPT !.animals[i] = m.e],
                                              ev |-> ev1, nid |-> r.nid],
                                             i + 1, n, t, draws)

RECURSIVE updateAnimalsFrom(_, _, _, _, _)
\* the forEach of _updateAnimals from the i-th placed animal on, up to the
\* n animals that were on the farm when the sweep began (forEach does not
\* visit elements appended during the sweep).  draws[i] holds the two
\* random draws of the i-th animal's breeding attempt; r.nid is the last
\* generated entity id.  Includes _attemptAnimalBreeding and
\* _onBreedingSuccess.
updateAnimalsFrom(r, i, n, t, draws) ==
  IF i > n THEN r
  ELSE LET wasGrowing == r.g.animals[i].status = GROWING
           m  == Animal_isMature(r.g.animals[i], t)
           ev1 == IF wasGrowing /\ m.ret
                  THEN Append(r.ev, Ev("animal-matured", m.e.id)) ELSE r.ev
       IN  IF m.e.status = GROWING /\ canBreed(m.e, t)
           THEN LET b   == attemptBreeding(m.e, t, draws[i].breed, draws[i].survive,
                                           r.nid + 1)
                    nid == IF b.result.created THEN r.nid + 1 ELSE r.nid
                    g1  == [r.g EXCEPT !.animals[i] = b.e]
                IN  IF b.result.attempted /\ b.result.bred /\ b.result.survived
                       /\ b.result.offspring # <<>>
                    THEN updateAnimalsFrom(
                           [g   |-> addOffspringToFarm(g1, b.result.offspring[1]).g,
                            ev  |-> Append(ev1, Ev("animal-bred", m.e.id)),
                            nid |-> nid], i + 1, n, t, draws)
                    ELSE updateAnimalsFrom([g |-> g1, ev |-> ev1, nid |-> nid],
                                           i + 1, n, t, draws)
           ELSE updateAnimalsFrom([g |-> [r.g EXCEPT !.animals[i] = m.e], ev |-> ev1,
                                   nid |-> r.nid], i + 1, n, t, draws)

\* TimerManager._updateAnimals at time t
_updateAnimals(g, nid, t, draws) ==
  updateAnimalsFrom([g |-> g, ev |-> <<>>, nid |-> nid], 1, Len(g.animals), t, draws)

\* a growth tick without the game-over check
_mainLoop_Unguarded(g, m, nid, t, draws) ==
  LET c == _updateCrops(g, t)
      a == _updateAnimals(c.g, nid, t, draws)
  IN  [g |-> a.g, tm |-> m, nid |-> a.nid, ev |-> c.ev \o a.ev]

\* TimerManager._mainLoop at time t: the growth tick
_mainLoop(g, m, nid, t, draws) ==
  IF isGameOver(g) THEN [g |-> g, tm |-> stop(m), nid |-> nid, ev |-> <<>>]
  ELSE LET c == _updateCrops(g, t)
           a == _updateAnimals(c.g, nid, t, draws)
       IN  [g |-> a.g, tm |-> m, nid |-> a.nid, ev |-> c.ev \o a.ev]

\* TimerManager._advanceDay at time t: the day tick.  When advanceDay
\* throws, the rest of the callback does not run.
_advanceDay(g, m, t, draw) ==
  LET d == advanceDay(g, draw)
  IN  IF d.threw THEN [g |-> d.g, tm |-> m, threw |-> TRUE, ev |-> d.ev]
      ELSE [g |-> d.g, tm |-> IF isGameOver(d.g) THEN stop(m) ELSE m,
            threw |-> FALSE, ev |-> d.ev]

(***************************************************************************)
(* The state machine.  gs is the GameState singleton, tm the TimerManager, *)
(* now the value of Date.now(), nextId the number of entity ids generated  *)
(* so far (the ids in use are 1..nextId).                                  *)
(***************************************************************************)
\* growth times and the day length are configured in whole minutes: the
\* wall clock is observed minute by minute
TimeStep == minutesToMilliseconds(1)

Now0 == TimeStep

\* ids passed to the operations that take one: every generated id and one
\* that no entity carries
IdInputs == 1..(nextId + 1)

\* the id of the oldest element of a collection, and one no entity carries
OldestOrUnknown(s) == (IF s = <<>> THEN {} ELSE {s[1].id}) \cup {nextId + 1}

\* the two random draws of the breeding attempt of each placed animal
BreedingDraws(g) == [1..Len(g.animals) -> [breed : BOOLEAN, survive : BOOLEAN]]

\* the placed animals of g for which a growth tick at time t attempts
\* breeding: still Growing after the maturity check, and canBreed
Eligible(g, t) ==
  { i \in 1..Len(g.animals) :
      LET m == Animal_isMature(g.animals[i], t)
      IN  m.e.status = GROWING /\ canBreed(m.e, t) }

\* the draws a growth tick at time t makes: only an animal that attempts
\* draws, and its survival draw is made only after a breeding draw that
\* succeeded; the draws not made are written FALSE
AttemptDraws(g, t) ==
  UNION { { [i \in 1..Len(g.animals) |-> [breed |-> i \in B, survive |-> i \in S]] :
              S \in SUBSET B } : B \in SUBSET Eligible(g, t) }

Init ==
  /\ \E draws \in [1..WEATHER_FORECAST_DAYS -> WeatherSamples] : gs = NewGameState(draws)
  /\ tm = NewTimerManager
  /\ now = Now0
  /\ nextId = 0

\* a direct call of a Ledger operation with result r
LedgerStep(r) ==
  /\ gs' = r.g
  /\ UNCHANGED <<tm, now, nextId>>

\* a call of a facade operation with result r
FacadeStep(r) ==
  /\ gs' = r.g
  /\ nextId' = IF r.created THEN nextId + 1 ELSE nextId
  /\ UNCHANGED <<tm, now>>

\* a call of a TimerManager control operation leaving the manager as m
TimerStep(m) ==
  /\ tm' = m
  /\ UNCHANGED <<gs, now, nextId>>

----
\* Ledger operations called directly (main.js devCommands does so)

AddMoney ==
  \E amount \in CreditInputs :
    /\ gs.statistics.totalMoneyEarned + amount <= MaxEarned
    /\ LedgerStep(addMoney(gs, amount))

DeductMoney ==
  \E amount \in DebitInputs :
    /\ gs.statistics.totalMoneySpent + amount <= MaxSpent \/ ~canAfford(gs, amount)
    /\ LedgerStep(deductMoney(gs, amount))

AdvanceDay(maxDay) ==
  \E draw \in WeatherSamples :
    /\ gs.currentDay < maxDay
    /\ LedgerStep(advanceDay(gs, draw))

AddSeed(limit) ==
  \E type \in CropTypeInputs \cap DOMAIN CROPS :
    /\ Len(gs.seeds) + Len(gs.crops) < limit
    /\ nextId' = nextId + 1
    /\ gs' = addSeed(gs, Crop(nextId + 1, type)).g
    /\ UNCHANGED <<tm, now>>

AddYoungAnimal(limit) ==
  \E type \in AnimalTypeInputs \cap DOMAIN ANIMALS :
    /\ Len(gs.youngAnimals) + Len(gs.animals) < limit
    /\ nextId' = nextId + 1
    /\ gs' = addYoungAnimal(gs, Animal(nextId + 1, type, TRUE)).g
    /\ UNCHANGED <<tm, now>>

PlantCrop(ids) == \E id \in ids : LedgerStep(plantCrop(gs, id, now))

HarvestCrop(ids) == \E id \in ids : LedgerStep(harvestCrop(gs, id, now))

SellCrop(ids) == \E id \in ids : LedgerStep(sellCrop(gs, id))

PlaceAnimal(ids) == \E id \in ids : LedgerStep(placeAnimal(gs, id, now))

SellAnimal(ids) == \E id \in ids : LedgerStep(sellAnimal(gs, id, now))

----
\* facade operations

BuySeed(limit) ==
  \E type \in CropTypeInputs :
    /\ nextId < limit
    /\ FacadeStep(ShopManager_buySeed(gs, type, nextId + 1))

ShopSellCrop(ids) == \E id \in ids : FacadeStep(ShopManager_sellCrop(gs, id))

ShopSellAll == FacadeStep(ShopManager_sellAllHarvestedCrops(gs))

BuyAnimal(limit) ==
  \E type \in AnimalTypeInputs :
    /\ nextId < limit
    /\ FacadeStep(ShopManager_buyAnimal(gs, type, nextId + 1))

ShopSellAnimal(ids) == \E id \in ids : FacadeStep(ShopManager_sellAnimal(gs, id, now))

FarmPlantCrop(ids) == \E id \in ids : FacadeStep(FarmManager_plantCrop(gs, id, now))

FarmHarvestCrop(ids) == \E id \in ids : FacadeStep(FarmManager_harvestCrop(gs, id, now))

FarmPlaceAnimal(ids) == \E id \in ids : FacadeStep(FarmManager_placeAnimal(gs, id, now))

----
\* the simulation clock

Start == TimerStep(start(tm, now))

Stop == TimerStep(stop(tm))

Pause == TimerStep(pause(tm))

Resume == TimerStep(resume(tm, now))

\* the growth interval fires; breeding draws that would create more than
\* limit entities are not taken
GrowthTick(limit) ==
  /\ tm.liveGrowth > 0
  /\ \E draws \in AttemptDraws(gs, now) :
       LET r == _mainLoop(gs, tm, nextId, now, draws)
       IN  /\ r.nid <= limit
           /\ gs' = r.g
           /\ tm' = r.tm
           /\ nextId' = r.nid
           /\ now' = now

\* the day interval fires when it is due, and is due again one day later
\* unless the callback cleared it
DayTick(maxDay) ==
  /\ tm.liveDay > 0
  /\ now >= tm.dayDue
  /\ gs.currentDay < maxDay
  /\ \E draw \in WeatherSamples :
       LET r == _advanceDay(gs, tm, now, draw)
       IN  /\ gs' = r.g
           /\ tm' = IF r.tm.liveDay > 0
                    THEN [r.tm EXCEPT !.dayDue = tm.dayDue + dayDurationMs]
                    ELSE r.tm
           /\ UNCHANGED <<now, nextId>>

\* the wall clock advances by up to step, no handler running; a day
\* interval that is due fires before the clock moves on
TimePasses(step, maxTime) ==
  /\ now < maxTime
  /\ tm.liveDay > 0 => now < tm.dayDue
  /\ now' = IF tm.liveDay > 0 THEN Min(now + step, tm.dayDue) ELSE now + step
  /\ UNCHANGED <<gs, tm, nextId>>

(***************************************************************************)
(* Spec: every operation, on a farm of at most MaxEntities entities.       *)
(***************************************************************************)
MaxTime == Now0 + MaxClockSteps * TimeStep

Next ==
  \/ AddMoney
  \/ DeductMoney
  \/ AdvanceDay(MaxDay)
  \/ PlantCrop(IdInputs)
  \/ HarvestCrop(IdInputs)
  \/ SellCrop(IdInputs)
  \/ PlaceAnimal(IdInputs)
  \/ SellAnimal(IdInputs)
  \/ BuySeed(MaxEntities)
  \/ ShopSellCrop(IdInputs)
  \/ BuyAnimal(MaxEntities)
  \/ ShopSellAnimal(IdInputs)
  \/ FarmPlantCrop(IdInputs)
  \/ FarmHarvestCrop(IdInputs)
  \/ FarmPlaceAnimal(IdInputs)
  \/ Start
  \/ Stop
  \/ Pause
  \/ Resume
  \/ GrowthTick(MaxEntities)
  \/ DayTick(MaxDay)
  \/ TimePasses(TimeStep, MaxTime)

Spec == Init /\ [][Next]_vars

(***************************************************************************)
(* SeasonSpec: the player's commands over a whole season, the days         *)
(* advanced by direct advanceDay calls (main.js devCommands.nextDay).      *)
(***************************************************************************)
SeasonMaxTime == Now0 + SeasonMaxClockSteps * TimeStep

SeasonNext ==
  \/ AddMoney
  \/ DeductMoney
  \/ AdvanceDay(SeasonMaxDay)
  \/ BuySeed(SeasonMaxEntities)
  \/ ShopSellCrop(IdInputs)
  \/ BuyAnimal(SeasonMaxEntities)
  \/ ShopSellAnimal(IdInputs)
  \/ FarmPlantCrop(IdInputs)
  \/ FarmHarvestCrop(IdInputs)
  \/ FarmPlaceAnimal(IdInputs)
  \/ TimePasses(TimeStep, SeasonMaxTime)

SeasonSpec == Init /\ [][SeasonNext]_vars

(***************************************************************************)
(* LiveSpec: the page as FarmRescueGame.initialize leaves it, the clock    *)
(* started and never stopped by hand.  An interval that setInterval has    *)
(* scheduled keeps firing and the wall clock keeps advancing: weak         *)
(* fairness of the two ticks and of the passing of time.                   *)
(***************************************************************************)
LiveMaxTime == Now0 + LiveMaxDay * dayDurationMs

LiveInit ==
  /\ \E draws \in [1..WEATHER_FORECAST_DAYS -> WeatherSamples] : gs = NewGameState(draws)
  /\ tm = start(NewTimerManager, Now0)
  /\ now = Now0
  /\ nextId = 0

LiveNext ==
  \/ AddMoney
  \/ BuySeed(LiveMaxEntities)
  \/ FarmPlantCrop(IdInputs)
  \/ FarmHarvestCrop(IdInputs)
  \/ ShopSellCrop(IdInputs)
  \/ GrowthTick(LiveMaxEntities)
  \/ DayTick(LiveMaxDay)
  \/ TimePasses(TimeStep, LiveMaxTime)

LiveSpec ==
  /\ LiveInit
  /\ [][LiveNext]_vars
  /\ WF_vars(GrowthTick(LiveMaxEntities))
  /\ WF_vars(DayTick(LiveMaxDay))
  /\ WF_vars(TimePasses(TimeStep, LiveMaxTime))

(***************************************************************************)
(* CapSpec: entities handed to the Ledger and planted or placed by its own *)
(* operations, oldest first, up to and beyond the slot limits.             *)
(***************************************************************************)
CapNext ==
  \/ AddSeed(CapMaxCrops)
  \/ PlantCrop(OldestOrUnknown(gs.seeds))
  \/ AddYoungAnimal(CapMaxAnimals)
  \/ PlaceAnimal(OldestOrUnknown(gs.youngAnimals))

CapSpec == Init /\ [][CapNext]_vars

(***************************************************************************)
(* BreedSpec: a running game in which animals are bought, placed, bred by  *)
(* the growth tick and sold.  The wall clock is observed every half        *)
(* minute, so that an animal is seen before, at and after the half of its  *)
(* growth time.                                                            *)
(***************************************************************************)
HalfStep == TimeStep \div 2

BreedMaxTime == Now0 + BreedMaxClockSteps * HalfStep

BreedNext ==
  \/ BuyAnimal(BreedMaxEntities)
  \/ FarmPlaceAnimal(IdInputs)
  \/ ShopSellAnimal(IdInputs)
  \/ GrowthTick(BreedMaxEntities)
  \/ DayTick(BreedMaxDay)
  \/ TimePasses(HalfStep, BreedMaxTime)

BreedSpec == LiveInit /\ [][BreedNext]_vars

(***************************************************************************)
(* HerdSpec: a running game whose field and farm are filled through the    *)
(* facade, oldest seed and oldest young animal first, up to and beyond the *)
(* slot limits, the animals bred by the growth tick.  The young animals    *)
(* arrive once the seeds are all there and the field is full: the two      *)
(* limits use separate collections and separate checks, and the order of   *)
(* arrival only renames the ids.                                           *)
(* The clock is observed when the animals placed at the start have passed  *)
(* the half of their growth.                                               *)
(***************************************************************************)
HerdStep == 2 * TimeStep

HerdMaxTime == Now0 + HerdMaxClockSteps * HerdStep

FieldDone ==
  ~canPlantMoreCrops(gs) /\ Len(gs.seeds) + Len(gs.crops) >= HerdMaxCrops

HerdNext ==
  \/ AddSeed(HerdMaxCrops)
  \/ FarmPlantCrop(OldestOrUnknown(gs.seeds))
  \/ FieldDone /\ AddYoungAnimal(HerdMaxAnimals)
  \/ FarmPlaceAnimal(OldestOrUnknown(gs.youngAnimals))
  \/ GrowthTick(HerdMaxCrops + HerdMaxAnimals + HerdMaxBorn)
  \/ TimePasses(HerdStep, HerdMaxTime)

HerdSpec == LiveInit /\ [][HerdNext]_vars

(***************************************************************************)
(* TradeSpec: a running game in which entities are bought, moved from      *)
(* collection to collection by the facade and by the Ledger's own          *)
(* operations, bred by the growth tick, and sold, within the first day.    *)
(***************************************************************************)
TradeMaxTime == Now0 + TradeMaxClockSteps * TimeStep

TradeNext ==
  \/ BuySeed(TradeMaxEntities)
  \/ BuyAnimal(TradeMaxEntities)
  \/ PlantCrop(IdInputs)
  \/ HarvestCrop(IdInputs)
  \/ SellCrop(IdInputs)
  \/ PlaceAnimal(IdInputs)
  \/ SellAnimal(IdInputs)
  \/ ShopSellCrop(IdInputs)
  \/ ShopSellAll
  \/ ShopSellAnimal(IdInputs)
  \/ FarmPlantCrop(IdInputs)
  \/ FarmHarvestCrop(IdInputs)
  \/ FarmPlaceAnimal(IdInputs)
  \/ GrowthTick(TradeMaxEntities)
  \/ TimePasses(TimeStep, TradeMaxTime)

TradeSpec == LiveInit /\ [][TradeNext]_vars

(***************************************************************************)
(* The market: the first day's weather is any two-decimal value of the     *)
(* configured range, the later days have a weather of the 1.4 rule; seeds  *)
(* of two crop types are bought or put into the inventory, planted,        *)
(* harvested after their growth time and sold through the shop, on the     *)
(* first or on a later day.  The clock is not started.                     *)
(***************************************************************************)
\* the weather values HELPERS.randomFloat(MIN, MAX, 2) can return
MarketFirstDayWeather == WEATHER_MIN..WEATHER_MAX
\* the draw of every later day
MarketLaterWeather == {55}
\* the crop types put into the inventory
MarketCropTypes == {"wheat", "strawberry"}

\* the clock is looked at once per growth time of the slowest market crop
MarketStep == minutesToMilliseconds(CROPS.strawberry.growthTime)
MarketMaxTime == Now0 + MarketMaxClockSteps * MarketStep

MarketInit ==
  /\ \E v \in MarketFirstDayWeather : \E w \in MarketLaterWeather :
       gs = NewGameState([i \in 1..WEATHER_FORECAST_DAYS |-> IF i = 1 THEN v ELSE w])
  /\ tm = NewTimerManager
  /\ now = Now0
  /\ nextId = 0

\* GameState.addSeed(new Crop(type)) for a type of the market
MarketAddSeed ==
  \E type \in MarketCropTypes :
    /\ nextId < MarketMaxEntities
    /\ nextId' = nextId + 1
    /\ gs' = addSeed(gs, Crop(nextId + 1, type)).g
    /\ UNCHANGED <<tm, now>>

\* GameState.advanceDay with the draw of a later day
MarketAdvanceDay ==
  \E draw \in MarketLaterWeather :
    /\ gs.currentDay < MarketMaxDay
    /\ LedgerStep(advanceDay(gs, draw))

MarketNext ==
  \/ BuySeed(MarketMaxEntities)
  \/ MarketAddSeed
  \/ FarmPlantCrop(IdInputs)
  \/ FarmHarvestCrop(IdInputs)
  \/ ShopSellCrop(IdInputs)
  \/ MarketAdvanceDay
  \/ TimePasses(MarketStep, MarketMaxTime)

MarketSpec == MarketInit /\ [][MarketNext]_vars

(***************************************************************************)
(* Pausing: the clock runs from the start of the game, is paused and       *)
(* resumed at any time, and only the day tick advances the day.            *)
(***************************************************************************)
PauseMaxTime == Now0 + PauseMaxClockSteps * TimeStep

PauseNext ==
  \/ BuySeed(PauseMaxEntities)
  \/ BuyAnimal(PauseMaxEntities)
  \/ FarmPlantCrop(IdInputs)
  \/ FarmPlaceAnimal(IdInputs)
  \/ Pause
  \/ Resume
  \/ GrowthTick(PauseMaxEntities)
  \/ DayTick(PauseMaxDay)
  \/ TimePasses(TimeStep, PauseMaxTime)

PauseSpec == LiveInit /\ [][PauseNext]_vars

(***************************************************************************)
(* The claims.                                                             *)
(***************************************************************************)
\* a step that advances the day: only advanceDay assigns currentDay
DayAdvanced == gs'.currentDay = gs.currentDay + 1

\* C1: an advanceDay made while Playing that leaves currentDay above
\* TOTAL_DAYS with currentMoney below the goal leaves the status Lost on
\* return.
C1_AsClaimed ==
  [][ ( /\ gs.gameStatus = PLAYING
        /\ DayAdvanced
        /\ gs'.currentDay > TOTAL_DAYS
        /\ gs'.currentMoney < gs'.goalMoney )
      => gs'.gameStatus = LOST ]_vars

\* C2: after any number of advanceDay calls the forecast has a first entry
\* and its day is the current day.
C2_AsClaimed ==
  /\ Len(gs.weatherForecast) >= 1
  /\ gs.weatherForecast[1].day = gs.currentDay

\* C3: every advance of the day leaves the forecast WEATHER_FORECAST_DAYS
\* entries long, having removed exactly the entries whose day is below the
\* new current day and appended exactly one entry.
C3_AsClaimed ==
  [][ DayAdvanced =>
        LET kept == SelectSeq(gs.weatherForecast, LAMBDA w : w.day >= gs'.currentDay)
        IN  /\ Len(gs'.weatherForecast) = WEATHER_FORECAST_DAYS
            /\ Len(gs'.weatherForecast) = Len(gs.weatherForecast)
            /\ Len(gs'.weatherForecast) = Len(kept) + 1
            /\ SubSeq(gs'.weatherForecast, 1, Len(kept)) = kept ]_vars

\* the day tick leaves both intervals cleared whenever it leaves the game
\* over
DayTickClears ==
  \A draw \in WeatherSamples :
    LET r == _advanceDay(gs, tm, now, draw)
    IN  isGameOver(r.g) => (r.tm.liveGrowth = 0 /\ r.tm.liveDay = 0)

\* once the forecast is empty, advanceDay on a Playing game throws before
\* the lose condition is looked at, leaving the status Playing and the
\* forecast empty: no later day tick gets any further
StuckPastDeadline ==
  (gs.gameStatus = PLAYING /\ gs.weatherForecast = <<>>) =>
    \A draw \in WeatherSamples :
      LET r == advanceDay(gs, draw)
      IN  r.threw /\ r.g.gameStatus = PLAYING /\ r.g.weatherForecast = <<>>

C5_AsClaimed ==
  isGameOver(gs) =>
    /\ \A amount \in CreditInputs :
         addMoney(gs, amount).ret = "false" /\ addMoney(gs, amount).g = gs
    /\ \A amount \in DebitInputs :
         deductMoney(gs, amount).ret = "false" /\ deductMoney(gs, amount).g = gs
    /\ \A draw \in WeatherSamples : advanceDay(gs, draw).g = gs
    /\ \A id \in IdInputs :
         /\ plantCrop(gs, id, now).ret = "false" /\ plantCrop(gs, id, now).g = gs
         /\ harvestCrop(gs, id, now).ret = "false" /\ harvestCrop(gs, id, now).g = gs
         /\ placeAnimal(gs, id, now).ret = "false" /\ placeAnimal(gs, id, now).g = gs
         /\ sellCrop(gs, id).ret = "null" /\ sellCrop(gs, id).g = gs
         /\ sellAnimal(gs, id, now).ret = "null" /\ sellAnimal(gs, id, now).g = gs

\* the ledger with the status Lost, as GameState.fromJSON restores it from
\* the save of a lost game
LostLedger == [gs EXCEPT !.gameStatus = LOST]

\* every Ledger operation, facade operation and tick applied to the ledger g
\* leaves its gameStatus, and advanceDay and the day tick leave its day and
\* forecast
KeepsTerminal(g) ==
  LET same(h) == h.gameStatus = g.gameStatus
      sameDay(h) == /\ same(h)
                    /\ h.currentDay = g.currentDay
                    /\ h.weatherForecast = g.weatherForecast
  IN  /\ \A amount \in CreditInputs : same(addMoney(g, amount).g)
      /\ \A amount \in DebitInputs : same(deductMoney(g, amount).g)
      /\ \A draw \in WeatherSamples :
           /\ sameDay(advanceDay(g, draw).g)
           /\ sameDay(_advanceDay(g, tm, now, draw).g)
      /\ \A draws \in BreedingDraws(g) : same(_mainLoop(g, tm, nextId, now, draws).g)
      /\ \A type \in CropTypeInputs : same(ShopManager_buySeed(g, type, nextId + 1).g)
      /\ \A type \in AnimalTypeInputs : same(ShopManager_buyAnimal(g, type, nextId + 1).g)
      /\ \A id \in IdInputs :
           /\ same(plantCrop(g, id, now).g)
           /\ same(harvestCrop(g, id, now).g)
           /\ same(sellCrop(g, id).g)
           /\ same(placeAnimal(g, id, now).g)
           /\ same(sellAnimal(g, id, now).g)
           /\ same(ShopManager_sellCrop(g, id).g)
           /\ same(ShopManager_sellAnimal(g, id, now).g)
           /\ same(FarmManager_plantCrop(g, id, now).g)
           /\ same(FarmManager_harvestCrop(g, id, now).g)
           /\ same(FarmManager_placeAnimal(g, id, now).g)

\* C6: Won and Lost are terminal: from a terminal status no step of the
\* Ledger, the facade or the clock changes gameStatus, and none (advanceDay
\* and the day tick included) changes currentDay or the forecast; the same
\* holds of every operation applied to a ledger loaded with the status Lost.
C6_TerminalIsFinal ==
  /\ [][ isGameOver(gs) =>
            /\ gs'.gameStatus = gs.gameStatus
            /\ gs'.currentDay = gs.currentDay
            /\ gs'.weatherForecast = gs.weatherForecast ]_vars
  /\ []KeepsTerminal(LostLedger)

\* a won game in which advanceDay can still be called and the day interval
\* is live and due
C6_Witness ==
  /\ gs.gameStatus = WON
  /\ gs.currentDay < MaxDay
  /\ tm.liveDay > 0
  /\ now >= tm.dayDue

\* C7: a step that starts while Playing and leaves currentMoney at or above
\* the goal (only a successful addMoney raises the balance) leaves the status
\* Won, and the status never becomes Won with the balance below the goal.
C7_WinExactlyAtGoal ==
  [][ /\ (gs.gameStatus = PLAYING /\ gs'.currentMoney >= gs'.goalMoney)
           => gs'.gameStatus = WON
      /\ (gs.gameStatus # WON /\ gs'.gameStatus = WON)
           => gs'.currentMoney >= gs'.goalMoney ]_vars

\* a game won with the balance exactly at the goal
C7_Witness == gs.gameStatus = WON /\ gs.currentMoney = GOAL_MONEY

\* C8: in every reachable state, a running clock implies the status
\* Playing.
C8_AsClaimed == tm.isRunning => gs.gameStatus = PLAYING

\* C9: every facade operation that reports success false has changed
\* nothing: the ledger after the call is the ledger before it, entity
\* status and anchor times included.
C9_AsClaimed ==
  /\ \A type \in CropTypeInputs :
       LET r == ShopManager_buySeed(gs, type, nextId + 1)
       IN  r.ret = "false" => r.g = gs
  /\ \A type \in AnimalTypeInputs :
       LET r == ShopManager_buyAnimal(gs, type, nextId + 1)
       IN  r.ret = "false" => r.g = gs
  /\ \A id \in IdInputs :
       /\ ShopManager_sellCrop(gs, id).ret = "false"
            => ShopManager_sellCrop(gs, id).g = gs
       /\ ShopManager_sellAnimal(gs, id, now).ret = "false"
            => ShopManager_sellAnimal(gs, id, now).g = gs
       /\ FarmManager_plantCrop(gs, id, now).ret = "false"
            => FarmManager_plantCrop(gs, id, now).g = gs
       /\ FarmManager_harvestCrop(gs, id, now).ret = "false"
            => FarmManager_harvestCrop(gs, id, now).g = gs
       /\ FarmManager_placeAnimal(gs, id, now).ret = "false"
            => FarmManager_placeAnimal(gs, id, now).g = gs

\* C10: the Ledger's own plantCrop and placeAnimal refuse, changing
\* nothing, when the target collection already holds MAX_CROP_SLOTS crops or
\* MAX_ANIMAL_SLOTS animals.
C10_AsClaimed ==
  /\ Len(gs.crops) >= MAX_CROP_SLOTS =>
       \A id \in IdInputs :
         plantCrop(gs, id, now).ret = "false" /\ plantCrop(gs, id, now).g = gs
  /\ Len(gs.animals) >= MAX_ANIMAL_SLOTS =>
       \A id \in IdInputs :
         placeAnimal(gs, id, now).ret = "false" /\ placeAnimal(gs, id, now).g = gs

\* C11: a deductMoney of more than the balance returns false and leaves
\* currentMoney and totalMoneySpent as they were, a deductMoney of the whole
\* balance leaves 0, and currentMoney is never negative.
C11_NoOverdraft ==
  /\ gs.currentMoney >= 0
  /\ deductMoney(gs, gs.currentMoney).g.currentMoney = 0
  /\ \A amount \in DebitInputs \cup {gs.currentMoney + 1} :
       amount > gs.currentMoney =>
         LET r == deductMoney(gs, amount)
         IN  /\ r.ret = "false"
             /\ r.g.currentMoney = gs.currentMoney
             /\ r.g.statistics.totalMoneySpent = gs.statistics.totalMoneySpent

\* money has been spent and the balance is below one of the debits tried
C11_Witness ==
  /\ gs.statistics.totalMoneySpent > 0
  /\ \E amount \in DebitInputs : amount > gs.currentMoney /\ gs.currentMoney > 0

\* amounts credited and debited back
PairAmounts == {0, 1, 18, 4950}

\* C12: for a valid amount x, addMoney(x) immediately followed by
\* deductMoney(x) succeeds twice and returns currentMoney to the value it had
\* before the pair: after every addMoney step taken, and for the pair applied
\* in every reachable state.
C12_CreditThenDebit ==
  /\ [][ \A x \in CreditInputs :
           (x >= 0 /\ gs' = addMoney(gs, x).g) =>
             LET d == deductMoney(gs', x)
             IN  d.ret = "true" /\ d.g.currentMoney = gs.currentMoney ]_vars
  /\ [](\A x \in PairAmounts :
          LET c == addMoney(gs, x)
              d == deductMoney(c.g, x)
          IN  c.ret = "true" /\ d.ret = "true" /\ d.g.currentMoney = gs.currentMoney)

\* a credit of 4950 has been made on a balance of 40, a seed bought before
C12_Witness ==
  /\ gs.statistics.totalMoneyEarned = 4950
  /\ gs.currentMoney = 4990
  /\ deductMoney(gs, 4950).ret = "true"

\* the configured thresholds, in the configured order, that are not in
\* reached and do not exceed balance
NewlyCrossed(reached, balance) ==
  SelectSeq(MILESTONES, LAMBDA m : ~Includes(reached, m) /\ m <= balance)

\* amounts credited for the milestone check: none, one, several and all of
\* the thresholds crossed from the starting balance
MilestoneCredits == {0, 50, 1200, 2450, 4950}

\* C13: on each credit exactly the configured thresholds not yet crossed and
\* <= the new balance become crossed, one notification is dispatched for each
\* of them in ascending order of threshold, and no milestone is recorded or
\* notified twice, the record of the crossed milestones never losing one.
C13_MilestonesOnce ==
  /\ [][ /\ Len(gs'.milestonesReached) >= Len(gs.milestonesReached)
         /\ SubSeq(gs'.milestonesReached, 1, Len(gs.milestonesReached))
              = gs.milestonesReached ]_vars
  /\ [](/\ \A i, j \in 1..Len(gs.milestonesReached) :
             i # j => gs.milestonesReached[i] # gs.milestonesReached[j]
        /\ \A amount \in MilestoneCredits \cup CreditInputs :
             amount >= 0 =>
               LET r == addMoney(gs, amount)
                   crossed == NewlyCrossed(gs.milestonesReached, r.g.currentMoney)
                   notes == SelectSeq(r.ev, LAMBDA e : e.name = "milestone-reached")
               IN  /\ r.g.milestonesReached = gs.milestonesReached \o crossed
                   /\ notes = [i \in 1..Len(crossed) |->
                                 Ev("milestone-reached", crossed[i])]
                   /\ \A i, j \in 1..Len(crossed) : i < j => crossed[i] < crossed[j]
                   /\ \A i \in 1..Len(crossed) :
                        ~Includes(gs.milestonesReached, crossed[i]))

\* the balance is back below a milestone that was crossed, and a credit
\* that rises above it again can be made
C13_Witness ==
  /\ Includes(gs.milestonesReached, GOAL_MONEY)
  /\ gs.currentMoney < GOAL_MONEY
  /\ \E amount \in CreditInputs :
       /\ gs.currentMoney + amount >= GOAL_MONEY
       /\ gs.statistics.totalMoneyEarned + amount <= MaxEarned

\* the placed animal of the ledger g that carries the id, as a set
PlacedWithId(g, id) == { j \in 1..Len(g.animals) : g.animals[j].id = id }

\* C14: breeding is one-shot.  A first attemptBreeding on a Growing animal
\* sets breedingAttempted whatever the two draws are; a step never clears
\* the flag of an animal that stays on the farm nor changes its offspring;
\* an attemptBreeding on an animal that has attempted returns
\* attempted:false, creates no offspring and leaves the animal as it was.
C14_BreedingOneShot ==
  /\ [][ \A i \in 1..Len(gs.animals) :
           gs.animals[i].breedingAttempted =>
             \A j \in PlacedWithId(gs', gs.animals[i].id) :
               /\ gs'.animals[j].breedingAttempted
               /\ gs'.animals[j].hasOffspring = gs.animals[i].hasOffspring
               /\ gs'.animals[j].offspring = gs.animals[i].offspring ]_vars
  /\ [](\A i \in 1..Len(gs.animals) : \A b, sv \in BOOLEAN :
          LET a == gs.animals[i]
              r == attemptBreeding(a, now, b, sv, nextId + 1)
          IN  /\ a.breedingAttempted => (r.e = a /\ r.result = NoAttempt)
              /\ (~a.breedingAttempted /\ a.status = GROWING) =>
                   (r.result.attempted /\ r.e.breedingAttempted))

\* an animal that has attempted is still Growing past the half of its
\* growth: only the flag keeps the tick from attempting again
C14_Witness ==
  \E i \in 1..Len(gs.animals) :
    /\ gs.animals[i].breedingAttempted
    /\ gs.animals[i].status = GROWING
    /\ progressAtLeast50(gs.animals[i], now)
    /\ tm.liveGrowth > 0

\* C15: when the breeding draw succeeds and the survival draw fails,
\* attemptBreeding returns bred:true, survived:false and no offspring, the
\* parent's offspring list is unchanged, and the growth tick in which every
\* attempt ends so adds nothing to any inventory collection and leaves the
\* offspring and breeding counters as they were.
C15_LostOffspring ==
  /\ \A i \in Eligible(gs, now) :
       LET a == gs.animals[i]
           r == attemptBreeding(a, now, TRUE, FALSE, nextId + 1)
       IN  /\ r.result.attempted /\ r.result.bred /\ ~r.result.survived
           /\ r.result.offspring = <<>>
           /\ r.e.offspring = a.offspring
  /\ ~isGameOver(gs) =>
       LET lost == [i \in 1..Len(gs.animals) |-> [breed |-> TRUE, survive |-> FALSE]]
           r == _mainLoop(gs, tm, nextId, now, lost)
       IN  /\ Len(r.g.animals) = Len(gs.animals)
           /\ \A i \in 1..Len(gs.animals) :
                /\ r.g.animals[i].id = gs.animals[i].id
                /\ r.g.animals[i].offspring = gs.animals[i].offspring
           /\ r.g.youngAnimals = gs.youngAnimals
           /\ r.g.seeds = gs.seeds
           /\ r.g.crops = gs.crops
           /\ r.g.harvestedCrops = gs.harvestedCrops
           /\ r.g.statistics = gs.statistics

\* a parent that bred an offspring which did not survive: the offspring
\* was constructed (an id was generated) and is nowhere
C15_Witness ==
  /\ Len(gs.animals) = 1
  /\ gs.animals[1].hasOffspring
  /\ gs.animals[1].offspring = <<>>
  /\ gs.youngAnimals = <<>>
  /\ nextId = 2
  /\ gs.statistics.totalOffspringBorn = 0

\* C16: every offspring returned with survived:true is non-null, comes from
\* a parent that was Growing and had not attempted, is Growing with its
\* placeTime stamped at the time of the attempt (later than the parent's
\* when the tick made the attempt); no animal that was born is ever Young,
\* without placeTime or among the young animals.
C16_OffspringPlaced ==
  /\ \A i \in 1..Len(gs.youngAnimals) : gs.youngAnimals[i].isPurchased
  /\ \A i \in 1..Len(gs.animals) :
       ~gs.animals[i].isPurchased =>
         /\ gs.animals[i].status \in {GROWING, MATURE}
         /\ gs.animals[i].placeTime # NULL
         /\ \A j \in 1..Len(gs.animals) :
              Includes(gs.animals[j].offspring, gs.animals[i].id) =>
                gs.animals[i].placeTime > gs.animals[j].placeTime
  /\ \A i \in 1..Len(gs.animals) : \A b, sv \in BOOLEAN :
       LET a == gs.animals[i]
           r == attemptBreeding(a, now, b, sv, nextId + 1)
       IN  r.result.survived =>
             /\ r.result.offspring # <<>>
             /\ a.status = GROWING /\ ~a.breedingAttempted
             /\ r.result.offspring[1].status = GROWING
             /\ r.result.offspring[1].placeTime = now
             /\ i \in Eligible(gs, now) => r.result.offspring[1].placeTime > a.placeTime

\* an offspring is on the farm next to its parent
C16_Witness ==
  \E i, j \in 1..Len(gs.animals) :
    /\ ~gs.animals[i].isPurchased
    /\ Includes(gs.animals[j].offspring, gs.animals[i].id)
    /\ gs.statistics.totalOffspringBorn > 0

\* the animals of the ledger, young and placed
AllAnimals == gs.youngAnimals \o gs.animals

\* the times at which an animal is looked at
LookTimes == { now + k * HalfStep : k \in 0..BreedMaxClockSteps }

\* C17: canBreed is true if and only if the animal is Growing, has not
\* attempted breeding and at least half of its growth time has elapsed since
\* it was placed, for every animal of a reachable state at every time.
C17_CanBreedIff ==
  \A i \in 1..Len(AllAnimals) : \A t \in LookTimes :
    LET a == AllAnimals[i]
    IN  canBreed(a, t) <=>
          /\ a.status = GROWING
          /\ ~a.breedingAttempted
          /\ 2 * (t - a.placeTime) >= Animal_growthDuration(a)

\* an animal that has not attempted is exactly at the half of its growth
C17_Witness ==
  \E i \in 1..Len(gs.animals) :
    /\ gs.animals[i].status = GROWING
    /\ ~gs.animals[i].breedingAttempted
    /\ 2 * (now - gs.animals[i].placeTime) = Animal_growthDuration(gs.animals[i])

\* the animals that a growth tick at time now with the draws d leaves with
\* a surviving offspring
Survivors(d) == { i \in Eligible(gs, now) : d[i].breed /\ d[i].survive }

\* C18: a growth tick appends to the placed animals, in the same tick, one
\* Growing offspring for every attempt that yields a surviving offspring,
\* whatever the number of placed animals is (at or above MAX_ANIMAL_SLOTS
\* included), and leaves the young animals as they were.
C18_OffspringBypassesSlots ==
  ~isGameOver(gs) =>
    \A d \in AttemptDraws(gs, now) :
      LET r == _mainLoop(gs, tm, nextId, now, d)
          n == Len(gs.animals)
      IN  /\ Len(r.g.animals) = n + Cardinality(Survivors(d))
          /\ r.g.youngAnimals = gs.youngAnimals
          /\ r.g.statistics.totalOffspringBorn
               = gs.statistics.totalOffspringBorn + Cardinality(Survivors(d))
          /\ \A i \in Survivors(d) :
               \E j \in (n + 1)..Len(r.g.animals) :
                 /\ r.g.animals[i].offspring = Append(gs.animals[i].offspring,
                                                      r.g.animals[j].id)
                 /\ ~r.g.animals[j].isPurchased
                 /\ r.g.animals[j].status = GROWING
                 /\ r.g.animals[j].placeTime = now
          /\ \A j \in (n + 1)..Len(r.g.animals) : ~r.g.animals[j].isPurchased

\* an offspring was inserted into a farm whose animal slots were all taken
C18_Witness ==
  /\ Len(gs.animals) > MAX_ANIMAL_SLOTS
  /\ ~gs.animals[Len(gs.animals)].isPurchased
  /\ \A i \in 1..MAX_ANIMAL_SLOTS : gs.animals[i].isPurchased

\* C19: a facade plantCrop / placeAnimal succeeds only when the target
\* collection holds fewer than its slot maximum before the call and is
\* refused without effect otherwise; the growing crops never exceed
\* MAX_CROP_SLOTS; the placed animals grow beyond MAX_ANIMAL_SLOTS only by
\* a born animal being appended, the young animals untouched, so that at most
\* MAX_ANIMAL_SLOTS of them were placed by hand.
C19_FacadeKeepsSlots ==
  /\ [][ (Len(gs'.animals) > Len(gs.animals) /\ Len(gs.animals) >= MAX_ANIMAL_SLOTS) =>
           /\ gs'.youngAnimals = gs.youngAnimals
           /\ \A j \in (Len(gs.animals) + 1)..Len(gs'.animals) :
                ~gs'.animals[j].isPurchased ]_vars
  /\ [](/\ Len(gs.crops) <= MAX_CROP_SLOTS
        /\ Cardinality({ i \in 1..Len(gs.animals) : gs.animals[i].isPurchased })
             <= MAX_ANIMAL_SLOTS
        /\ \A id \in IdInputs :
             LET p == FarmManager_plantCrop(gs, id, now)
                 a == FarmManager_placeAnimal(gs, id, now)
             IN  /\ p.ret = "true" => Len(gs.crops) < MAX_CROP_SLOTS
                 /\ a.ret = "true" => Len(gs.animals) < MAX_ANIMAL_SLOTS
                 /\ Len(gs.crops) >= MAX_CROP_SLOTS => (p.ret = "false" /\ p.g = gs)
                 /\ Len(gs.animals) >= MAX_ANIMAL_SLOTS => (a.ret = "false" /\ a.g = gs))

\* the field is full with a seed left over, the farm holds more animals
\* than slots and a young animal is left over
C19_Witness ==
  /\ Len(gs.crops) = MAX_CROP_SLOTS
  /\ gs.seeds # <<>>
  /\ Len(gs.animals) > MAX_ANIMAL_SLOTS
  /\ gs.youngAnimals # <<>>

\* the entities of the five inventory collections of the ledger g, in one
\* sequence
Inventory(g) == g.seeds \o g.crops \o g.harvestedCrops \o g.youngAnimals \o g.animals

\* the ids of the entities of the ledger g
IdsOf(g) == { Inventory(g)[i].id : i \in 1..Len(Inventory(g)) }

\* C20: inventory transitions are moves, never copies.  In every reachable
\* state no id occurs twice in the five collections taken together; a step
\* brings in only ids generated by that step; a sale of crops removes one
\* id for each crop it counts as sold, all of harvested crops, a sale of an
\* animal removes exactly one id, that of a placed animal, and a removed id
\* is in no collection afterwards; every other step keeps every id.
C20_MovesNotCopies ==
  /\ [][ /\ IdsOf(gs') \ IdsOf(gs) \subseteq (nextId + 1)..nextId'
         /\ IF gs'.statistics.totalCropsSold # gs.statistics.totalCropsSold
            THEN /\ IdsOf(gs') \subseteq IdsOf(gs)
                 /\ IdsOf(gs) \ IdsOf(gs') \subseteq
                      { gs.harvestedCrops[i].id : i \in 1..Len(gs.harvestedCrops) }
                 /\ Cardinality(IdsOf(gs) \ IdsOf(gs')) =
                      gs'.statistics.totalCropsSold - gs.statistics.totalCropsSold
            ELSE IF gs'.statistics.totalAnimalsSold # gs.statistics.totalAnimalsSold
            THEN \E i \in 1..Len(gs.animals) :
                   IdsOf(gs') = IdsOf(gs) \ {gs.animals[i].id}
            ELSE IdsOf(gs) \subseteq IdsOf(gs') ]_vars
  /\ [](/\ \A i, j \in 1..Len(Inventory(gs)) :
             i # j => Inventory(gs)[i].id # Inventory(gs)[j].id
        /\ IdsOf(gs) \subseteq 1..nextId)

\* a crop has gone through seeds, crops and harvested crops and was sold,
\* an animal was born on the farm, and two entities are left
C20_Witness ==
  /\ gs.statistics.totalCropsSold > 0
  /\ gs.statistics.totalOffspringBorn > 0
  /\ Cardinality(IdsOf(gs)) = 2
  /\ nextId = 3

\* the whole growth duration of the crop c has elapsed at time t
CropGrown(c, t) == c.plantTime # NULL /\ t - c.plantTime >= Crop_growthDuration(c)

\* the whole growth duration of the animal a has elapsed at time t
AnimalGrown(a, t) == a.placeTime # NULL /\ t - a.placeTime >= Animal_growthDuration(a)

\* C21: the maturity gate.  harvestCrop succeeds only for a growing crop
\* whose growth duration has elapsed since plantTime, sellAnimal only for a
\* placed animal whose growth duration has elapsed since placeTime, both
\* through the Ledger and through the facade; every crop that a step puts
\* among the harvested crops and every animal that a step sells was fully
\* grown at that step, and every harvested crop was harvested no earlier
\* than its plantTime plus its growth duration.
C21_MaturityGate ==
  /\ [][ /\ \A i \in 1..Len(gs'.harvestedCrops) :
              gs'.harvestedCrops[i].id \notin { gs.harvestedCrops[j].id :
                                                  j \in 1..Len(gs.harvestedCrops) } =>
                \E k \in 1..Len(gs.crops) :
                  /\ gs.crops[k].id = gs'.harvestedCrops[i].id
                  /\ CropGrown(gs.crops[k], now)
         /\ gs'.statistics.totalAnimalsSold # gs.statistics.totalAnimalsSold =>
              \E k \in 1..Len(gs.animals) :
                /\ gs.animals[k].id \notin { gs'.animals[j].id : j \in 1..Len(gs'.animals) }
                /\ AnimalGrown(gs.animals[k], now) ]_vars
  /\ [](/\ \A i \in 1..Len(gs.harvestedCrops) :
             CropGrown(gs.harvestedCrops[i], gs.harvestedCrops[i].harvestTime)
        /\ \A id \in IdInputs :
             LET ci == findIndex(gs.crops, id)
                 ai == findIndex(gs.animals, id)
             IN  /\ (harvestCrop(gs, id, now).ret = "true"
                      \/ FarmManager_harvestCrop(gs, id, now).ret = "true") =>
                       (ci # 0 /\ CropGrown(gs.crops[ci], now))
                 /\ (sellAnimal(gs, id, now).ret = "object"
                      \/ ShopManager_sellAnimal(gs, id, now).ret = "true") =>
                       (ai # 0 /\ AnimalGrown(gs.animals[ai], now)))

\* a crop was harvested and an animal was sold
C21_Witness ==
  /\ gs.harvestedCrops # <<>>
  /\ gs.statistics.totalAnimalsSold > 0

\* the multiplier, in tenths, of the current day's weather
CurrentDemand(g) == getCurrentWeather(g)[1].demandIndex

\* C22 as the specification states it: a successful ShopManager.sellCrop(id)
\* removes exactly that crop from the harvested crops, increases
\* currentMoney by exactly floor(baseSellPrice * demandIndex) of the current
\* day's weather (the product and its floor taken of the numbers the rule
\* table lists), and increments totalCropsSold by exactly 1.
C22_AsClaimed ==
  \A id \in IdInputs :
    LET r == ShopManager_sellCrop(gs, id)
        i == findIndex(gs.harvestedCrops, id)
    IN  r.ret = "true" =>
          /\ i # 0
          /\ r.g.harvestedCrops = splice(gs.harvestedCrops, i)
          /\ r.g.statistics.totalCropsSold = gs.statistics.totalCropsSold + 1
          /\ r.g.currentMoney = gs.currentMoney
               + (CROPS[gs.harvestedCrops[i].type].baseSellPrice * CurrentDemand(gs)) \div 10

\* C23 as the specification states it: Weather.generateForecast(n, startDay)
\* returns n entries whose days are startDay, startDay + 1, ...,
\* startDay + n - 1 in order, also when startDay + n - 1 exceeds day 10;
\* startDay is the current day.
C23_AsClaimed ==
  \A n \in 1..WEATHER_FORECAST_DAYS : \A v \in WeatherSamples :
    LET f == generateForecast(n, gs.currentDay, [i \in 1..n |-> v])
    IN  /\ Len(f) = n
        /\ \A i \in 1..n : f[i].day = gs.currentDay + i - 1

\* the rules whose inclusive range contains the weather value v
MatchingRules(v) ==
  { i \in 1..Len(WEATHER_DEMAND_RULES) :
      WEATHER_DEMAND_RULES[i].minWeather <= v /\ v <= WEATHER_DEMAND_RULES[i].maxWeather }

\* C24: for every two-decimal weather value in [0.10, 1.00] (the first day
\* takes each of them), the demand index of a forecast entry is the
\* multiplier of the first rule whose inclusive range contains the value,
\* exactly one rule contains it, so the neutral fallback is never taken;
\* the boundary value 0.80 resolves to the 0.80-0.89 rule (1.0), the
\* boundary value 0.79 to the 0.70-0.79 rule (1.2).
C24_FirstRuleOnly ==
  \A k \in 1..Len(gs.weatherForecast) :
    LET w == gs.weatherForecast[k]
        m == MatchingRules(w.weatherValue)
    IN  /\ w.weatherValue \in WEATHER_MIN..WEATHER_MAX
        /\ Cardinality(m) = 1
        /\ \A i \in m : w.demandIndex = WEATHER_DEMAND_RULES[i].demandMultiplier
        /\ w.demandIndex = calculateDemandIndex(w.weatherValue)
        /\ w.weatherValue = 80 => w.demandIndex = 10
        /\ w.weatherValue = 79 => w.demandIndex = 12

\* a crop was sold on a first day whose weather is the boundary value 0.80
C24_Witness ==
  /\ gs.currentDay = 1
  /\ gs.weatherForecast[1].weatherValue = 80
  /\ gs.weatherForecast[1].demandIndex = 10
  /\ gs.statistics.totalCropsSold > 0

\* calculateDemandIndex of every two-decimal weather value
DemandOf == [v \in WEATHER_MIN..WEATHER_MAX |-> calculateDemandIndex(v)]

\* C25: the weather-to-demand mapping of the configured rule table is
\* monotonically non-increasing: a forecast entry's demand index is at
\* least that of every larger weather value of [0.10, 1.00] and at most
\* that of every smaller one.
C25_DemandMonotone ==
  \A k \in 1..Len(gs.weatherForecast) : \A v \in WEATHER_MIN..WEATHER_MAX :
    LET w == gs.weatherForecast[k]
    IN  /\ w.weatherValue < v => w.demandIndex >= DemandOf[v]
        /\ v < w.weatherValue => DemandOf[v] >= w.demandIndex

\* a forecast whose first day has the worse weather and the strictly higher
\* demand index
C25_Witness ==
  /\ Len(gs.weatherForecast) >= 2
  /\ gs.weatherForecast[1].weatherValue < gs.weatherForecast[2].weatherValue
  /\ gs.weatherForecast[1].demandIndex > gs.weatherForecast[2].demandIndex

\* every crop and every animal of the ledger
AllCrops == gs.seeds \o gs.crops \o gs.harvestedCrops

\* the crop c is Growing and its growth duration has elapsed at time t
CropDue(c, t) == c.status = GROWING /\ CropGrown(c, t)

\* the animal a is Growing and its growth duration has elapsed at time t
AnimalDue(a, t) == a.status = GROWING /\ AnimalGrown(a, t)

\* isMature, called on the entity x at the current time with the result r
\* and called again at once with the result r2, makes the transition
\* exactly when the entity is due, changes nothing otherwise, and the
\* second call changes nothing and returns the same
LazyTransition(x, due, r, r2) ==
  /\ r.e = IF due THEN [x EXCEPT !.status = MATURE] ELSE x
  /\ r2.e = r.e
  /\ r2.ret = r.ret

\* C26 as the specification states it: isMature() performs the
\* Growing->Mature transition exactly when the status is Growing and the
\* elapsed time since the anchor time is at least the growth duration,
\* changes nothing in any other case, returns true iff the status is Mature
\* or later after the call, and an immediate second call returns the same
\* with no further change.
C26_AsClaimed ==
  /\ \A i \in 1..Len(AllCrops) :
       LET c  == AllCrops[i]
           r  == Crop_isMature(c, now)
       IN  /\ LazyTransition(c, CropDue(c, now), r, Crop_isMature(r.e, now))
           /\ r.ret <=> r.e.status \in {MATURE, HARVESTED}
  /\ \A i \in 1..Len(AllAnimals) :
       LET a  == AllAnimals[i]
           r  == Animal_isMature(a, now)
       IN  /\ LazyTransition(a, AnimalDue(a, now), r, Animal_isMature(r.e, now))
           /\ r.ret <=> r.e.status = MATURE

\* C26, amended: as above, but isMature() returns true iff the status is
\* Mature after the call; a crop that is already Harvested yields false.
C26_LazyMaturity ==
  /\ \A i \in 1..Len(AllCrops) :
       LET c  == AllCrops[i]
           r  == Crop_isMature(c, now)
       IN  /\ LazyTransition(c, CropDue(c, now), r, Crop_isMature(r.e, now))
           /\ r.ret <=> r.e.status = MATURE
           /\ c.status = HARVESTED => ~r.ret
  /\ \A i \in 1..Len(AllAnimals) :
       LET a  == AllAnimals[i]
           r  == Animal_isMature(a, now)
       IN  /\ LazyTransition(a, AnimalDue(a, now), r, Animal_isMature(r.e, now))
           /\ r.ret <=> r.e.status = MATURE

\* a crop is harvested and another crop is Growing with its growth duration
\* elapsed, so that the call makes the transition
C26_Witness ==
  /\ gs.harvestedCrops # <<>>
  /\ \E i \in 1..Len(gs.crops) : CropDue(gs.crops[i], now)

\* the times at which the progress is sampled: now and later
SampleTimes == { now + k * HalfStep : k \in 0..(2 * TradeMaxClockSteps + 2) }

\* the crop of gs' that has the id of c, as a set
SameCrop(c) ==
  { x \in { (gs'.seeds \o gs'.crops \o gs'.harvestedCrops)[i] :
              i \in 1..Len(gs'.seeds \o gs'.crops \o gs'.harvestedCrops) } : x.id = c.id }

\* the animal of gs' that has the id of a, as a set
SameAnimal(a) ==
  { x \in { (gs'.youngAnimals \o gs'.animals)[i] :
              i \in 1..Len(gs'.youngAnimals \o gs'.animals) } : x.id = a.id }

\* C27: the growth progress of a Growing entity sampled at two times
\* t1 < t2 does not decrease, never exceeds the maximum (100 percent), is
\* exactly the maximum once the elapsed time has reached the growth
\* duration, and is the maximum for a Mature entity; from one step to the
\* next the progress of an entity does not decrease, so it stays at the
\* maximum once the entity is Mature.  An animal's progress is at least 50
\* percent exactly when canBreed takes it to be.
C27_ProgressMonotone ==
  /\ [](/\ \A i \in 1..Len(AllCrops) : \A t1, t2 \in SampleTimes :
             LET c   == AllCrops[i]
                 max == 100 * Crop_growthDuration(c)
             IN  /\ Crop_getGrowthProgress(c, t1) \in 0..max
                 /\ t1 < t2 => Crop_getGrowthProgress(c, t1) <= Crop_getGrowthProgress(c, t2)
                 /\ c.status = GROWING =>
                      (Crop_getGrowthProgress(c, t1) = max <=> CropGrown(c, t1))
                 /\ c.status = MATURE => Crop_getGrowthProgress(c, t1) = max
        /\ \A i \in 1..Len(AllAnimals) : \A t1, t2 \in SampleTimes :
             LET a   == AllAnimals[i]
                 max == 100 * Animal_growthDuration(a)
             IN  /\ Animal_getGrowthProgress(a, t1) \in 0..max
                 /\ t1 < t2 => Animal_getGrowthProgress(a, t1) <= Animal_getGrowthProgress(a, t2)
                 /\ a.status = GROWING =>
                      (Animal_getGrowthProgress(a, t1) = max <=> AnimalGrown(a, t1))
                 /\ a.status = MATURE => Animal_getGrowthProgress(a, t1) = max
                 /\ progressAtLeast50(a, t1) <=> 2 * Animal_getGrowthProgress(a, t1) >= max)
  /\ [][ /\ \A i \in 1..Len(AllCrops) : \A x \in SameCrop(AllCrops[i]) :
              Crop_getGrowthProgress(AllCrops[i], now) <= Crop_getGrowthProgress(x, now')
         /\ \A i \in 1..Len(AllAnimals) : \A x \in SameAnimal(AllAnimals[i]) :
              Animal_getGrowthProgress(AllAnimals[i], now) <= Animal_getGrowthProgress(x, now')
       ]_vars

\* one crop is Mature and another is Growing, under way between 0 and 100
\* percent
C27_Witness ==
  /\ \E i \in 1..Len(gs.crops) : gs.crops[i].status = MATURE
  /\ \E i \in 1..Len(gs.crops) :
       /\ gs.crops[i].status = GROWING
       /\ Crop_getGrowthProgress(gs.crops[i], now) \in 1..(100 * Crop_growthDuration(gs.crops[i]) - 1)

\* the position of a status in the life of a crop or an animal
StatusRank(status) ==
  CASE status \in {SEED, YOUNG} -> 0
    [] status = GROWING -> 1
    [] status = MATURE -> 2
    [] status = HARVESTED -> 3

\* C28: the status of an entity only moves forward (Crop: Seed, Growing,
\* Mature, Harvested; Animal: Young, Growing, Mature) and the anchor time
\* (plantTime / placeTime) is assigned exactly once: it is unset exactly in
\* the initial status, no step changes it once set, and plant() / place()
\* on an entity that is not in its initial status, now or later, returns
\* false and leaves the entity as it is.
C28_ForwardOnly ==
  /\ [][ /\ \A i \in 1..Len(AllCrops) : \A x \in SameCrop(AllCrops[i]) :
              /\ StatusRank(x.status) >= StatusRank(AllCrops[i].status)
              /\ AllCrops[i].plantTime # NULL => x.plantTime = AllCrops[i].plantTime
         /\ \A i \in 1..Len(AllAnimals) : \A x \in SameAnimal(AllAnimals[i]) :
              /\ StatusRank(x.status) >= StatusRank(AllAnimals[i].status)
              /\ AllAnimals[i].placeTime # NULL => x.placeTime = AllAnimals[i].placeTime
       ]_vars
  /\ [](/\ \A i \in 1..Len(AllCrops) : \A t \in {now, now + TimeStep} :
             LET c == AllCrops[i]
             IN  /\ c.plantTime = NULL <=> c.status = SEED
                 /\ c.status # SEED => Crop_plant(c, t) = [e |-> c, ret |-> FALSE]
                 /\ c.status = SEED =>
                      /\ Crop_plant(c, t).ret
                      /\ Crop_plant(c, t).e = [c EXCEPT !.status = GROWING, !.plantTime = t]
        /\ \A i \in 1..Len(AllAnimals) : \A t \in {now, now + TimeStep} :
             LET a == AllAnimals[i]
             IN  /\ a.placeTime = NULL <=> a.status = YOUNG
                 /\ a.status # YOUNG => place(a, t) = [e |-> a, ret |-> FALSE]
                 /\ a.status = YOUNG =>
                      /\ place(a, t).ret
                      /\ place(a, t).e = [a EXCEPT !.status = GROWING, !.placeTime = t])

\* a crop planted earlier has been harvested and an animal placed earlier
\* is on the farm: a second plant() or place() would move their anchor
C28_Witness ==
  /\ \E i \in 1..Len(gs.harvestedCrops) : gs.harvestedCrops[i].plantTime < now
  /\ \E i \in 1..Len(gs.animals) : gs.animals[i].placeTime < now

\* C29: under any sequence of start, stop, pause and resume calls, ticks
\* and automatic game-over stops, at most one growth-tick interval and at
\* most one day-tick interval are scheduled, both or none, and the manager
\* holds their handles exactly while it is running; stop() clears both and
\* a second stop() changes nothing; start() after stop() schedules exactly
\* one of each, and a second start() schedules nothing more; pause() and
\* resume() act as stop() and start().
C29_OneIntervalEach ==
  /\ tm.liveGrowth \in {0, 1}
  /\ tm.liveDay \in {0, 1}
  /\ tm.isRunning <=> tm.liveGrowth = 1
  /\ tm.isRunning <=> tm.liveDay = 1
  /\ tm.isRunning <=> tm.mainLoopTimer # NULL
  /\ tm.isRunning <=> tm.dayTimer # NULL
  /\ stop(tm).liveGrowth = 0 /\ stop(tm).liveDay = 0 /\ ~stop(tm).isRunning
  /\ stop(stop(tm)) = stop(tm)
  /\ pause(pause(tm)) = stop(tm)
  /\ \A t \in {now, now + TimeStep} :
       /\ start(stop(tm), t).liveGrowth = 1
       /\ start(stop(tm), t).liveDay = 1
       /\ start(start(tm, now), t) = start(tm, now)
       /\ resume(pause(tm), t) = start(stop(tm), t)

\* the game is over while both intervals are still scheduled: the next
\* tick stops the clock by itself
C29_Witness ==
  /\ isGameOver(gs)
  /\ tm.isRunning
  /\ tm.liveGrowth = 1 /\ tm.liveDay = 1

\* C30: a growth tick that fires when the Ledger is already game-over
\* stops the clock and processes nothing: whatever the breeding draws, the
\* ledger is unchanged (no status flip, no breeding attempt, no offspring),
\* no id is used up and no notification is dispatched.
C30_GameOverTickIdle ==
  isGameOver(gs) =>
    \A draws \in BreedingDraws(gs) :
      LET r == _mainLoop(gs, tm, nextId, now, draws)
      IN  /\ r.g = gs
          /\ r.nid = nextId
          /\ r.ev = <<>>
          /\ r.tm = stop(tm)
          /\ r.tm.liveGrowth = 0 /\ r.tm.liveDay = 0

\* the game is over, the growth tick is scheduled, and on the farm an
\* animal is ready for its breeding attempt or a crop is due to mature
C30_Witness ==
  /\ isGameOver(gs)
  /\ tm.liveGrowth > 0
  /\ \/ Eligible(gs, now) # {}
     \/ \E i \in 1..Len(gs.crops) : CropDue(gs.crops[i], now)

\* the outcome of a facade command with result r is decided by grown
\* alone: success when the growth duration has elapsed, the 'not mature'
\* refusal otherwise
DecidedByElapsed(r, grown) ==
  IF grown THEN r.ret = "true" ELSE r.ret = "false" /\ r.msg = "NOT_MATURE"

\* C31: while the game is on, the outcome of a facade harvest or
\* sell-animal command on an entity of the farm depends only on whether its
\* growth duration has elapsed at the moment of the command, whatever the
\* stored status says: it succeeds when the duration has elapsed, also when
\* no tick has marked the entity Mature, and is refused as not mature
\* otherwise; a growth tick that runs just before the command, with any
\* breeding draws, does not change the outcome.
C31_FreshMaturity ==
  ~isGameOver(gs) /\ getCurrentWeather(gs) # <<>> =>
    /\ \A i \in 1..Len(gs.crops) :
         LET c == gs.crops[i]
         IN  /\ DecidedByElapsed(FarmManager_harvestCrop(gs, c.id, now), CropGrown(c, now))
             /\ \A draws \in AttemptDraws(gs, now) :
                  DecidedByElapsed(
                    FarmManager_harvestCrop(_mainLoop(gs, tm, nextId, now, draws).g, c.id, now),
                    CropGrown(c, now))
    /\ \A i \in 1..Len(gs.animals) :
         LET a == gs.animals[i]
         IN  /\ DecidedByElapsed(ShopManager_sellAnimal(gs, a.id, now), AnimalGrown(a, now))
             /\ \A draws \in AttemptDraws(gs, now) :
                  DecidedByElapsed(
                    ShopManager_sellAnimal(_mainLoop(gs, tm, nextId, now, draws).g, a.id, now),
                    AnimalGrown(a, now))

\* the growth duration of a placed animal and of a planted crop has
\* elapsed and no tick has marked either of them Mature
C31_Witness ==
  /\ \E i \in 1..Len(gs.animals) : AnimalDue(gs.animals[i], now)
  /\ \E i \in 1..Len(gs.crops) : CropDue(gs.crops[i], now)

\* C32 as the specification states it: for every reachable Ledger state,
\* fromJSON(toJSON(state)) has the same balance (also a balance of 0), day,
\* status, forecast, contents of all five inventories (id, type, status,
\* timestamps and breeding fields of every entity), statistics and
\* milestones.
C32_AsClaimed == fromJSON(toJSON(gs)) = gs

\* C33: pause() followed by resume() restarts the day cadence from zero.
\* Whatever time had accumulated toward the current day, the resumed clock
\* has its day tick due one full day interval after the resume; the step
\* that sets the clock running does not advance the day; and the day
\* advances only while the clock runs and a full interval has passed since
\* it was started or the day last changed.
C33_ResumeFromZero ==
  /\ [][ /\ (~tm.isRunning /\ tm'.isRunning) =>
              /\ tm'.dayDue = now + dayDurationMs
              /\ gs'.currentDay = gs.currentDay
         /\ gs'.currentDay # gs.currentDay =>
              /\ tm.isRunning /\ now >= tm.dayDue
              /\ tm'.isRunning => tm'.dayDue = now + dayDurationMs
       ]_vars
  /\ [](/\ LET m == resume(pause(tm), now)
           IN  m.isRunning /\ m.liveDay = 1 /\ m.dayDue = now + dayDurationMs
        /\ tm.isRunning => tm.dayDue \in (now)..(now + dayDurationMs))

\* the clock was paused and resumed on day 1 and is running: the deadline
\* of the first start has passed but the day has not advanced, the time
\* accumulated before the pause is gone
C33_Witness ==
  /\ gs.currentDay = 1
  /\ tm.isRunning
  /\ now >= Now0 + dayDurationMs
  /\ tm.dayDue > now

\* C34 as the specification states it: sellAllHarvestedCrops(), called
\* while Playing with the current weather available and the goal not
\* reached during the batch, sells every crop that was among the harvested
\* crops: the returned count is their number and no harvested crop is left.
C34_AsClaimed ==
  LET r == ShopManager_sellAllHarvestedCrops(gs)
  IN  (~isGameOver(gs) /\ getCurrentWeather(gs) # <<>> /\ ~isGameOver(r.g)) =>
        /\ r.count = Len(gs.harvestedCrops)
        /\ r.g.harvestedCrops = <<>>

\* C35: the money accounting identity.  In every state reached from a new
\* game through the Ledger's operations (called directly or by the facade
\* and the ticks), currentMoney = STARTING_MONEY + totalMoneyEarned
\* - totalMoneySpent, and every credit and debit keeps it.
C35_MoneyIdentity ==
  /\ gs.currentMoney =
       STARTING_MONEY + gs.statistics.totalMoneyEarned - gs.statistics.totalMoneySpent
  /\ \A x \in CreditInputs \cup DebitInputs :
       /\ LET g == addMoney(gs, x).g
          IN  g.currentMoney =
                STARTING_MONEY + g.statistics.totalMoneyEarned - g.statistics.totalMoneySpent
       /\ LET g == deductMoney(gs, x).g
          IN  g.currentMoney =
                STARTING_MONEY + g.statistics.totalMoneyEarned - g.statistics.totalMoneySpent

\* money has been spent and earned while the game is on
C35_Witness ==
  /\ gs.gameStatus = PLAYING
  /\ gs.statistics.totalMoneySpent > 0
  /\ gs.statistics.totalMoneyEarned > 0
  /\ gs.currentMoney # STARTING_MONEY

\* C36: entity-count conservation.  In every state reached through the
\* facade operations and the ticks, totalCropsPurchased is the number of
\* seeds, growing crops and harvested crops plus totalCropsSold, and
\* totalAnimalsPurchased + totalOffspringBorn is the number of young and
\* placed animals plus totalAnimalsSold.
C36_CountsConserved ==
  /\ gs.statistics.totalCropsPurchased =
       Len(gs.seeds) + Len(gs.crops) + Len(gs.harvestedCrops) + gs.statistics.totalCropsSold
  /\ gs.statistics.totalAnimalsPurchased + gs.statistics.totalOffspringBorn =
       Len(gs.youngAnimals) + Len(gs.animals) + gs.statistics.totalAnimalsSold

\* an offspring was born on the farm and a crop or an animal was sold
C36_Witness ==
  /\ gs.statistics.totalOffspringBorn > 0
  /\ gs.statistics.totalCropsSold + gs.statistics.totalAnimalsSold > 0

\* C37: collection/status consistency.  In every reachable state every
\* seed has status Seed and no plantTime, every growing crop is Growing or
\* Mature with a plantTime, every harvested crop is Harvested, every young
\* animal is Young with no placeTime, and every placed animal, injected
\* offspring included, is Growing or Mature with a placeTime.
C37_CollectionsMatchStatus ==
  /\ \A i \in 1..Len(gs.seeds) :
       gs.seeds[i].status = SEED /\ gs.seeds[i].plantTime = NULL
  /\ \A i \in 1..Len(gs.crops) :
       gs.crops[i].status \in {GROWING, MATURE} /\ gs.crops[i].plantTime # NULL
  /\ \A i \in 1..Len(gs.harvestedCrops) :
       gs.harvestedCrops[i].status = HARVESTED
  /\ \A i \in 1..Len(gs.youngAnimals) :
       gs.youngAnimals[i].status = YOUNG /\ gs.youngAnimals[i].placeTime = NULL
  /\ \A i \in 1..Len(gs.animals) :
       gs.animals[i].status \in {GROWING, MATURE} /\ gs.animals[i].placeTime # NULL

\* an offspring born on the farm stands among the placed animals while a
\* harvested crop is in store
C37_Witness ==
  /\ \E i \in 1..Len(gs.animals) : ~gs.animals[i].isPurchased
  /\ gs.harvestedCrops # <<>>

\* C38: in every state reached from a new game through the Ledger's and
\* the facade's operations and the ticks, a Playing game has a balance
\* below GOAL_MONEY, and a Won game has the goal milestone (5000) among its
\* crossed milestones.
C38_StatusMatchesMoney ==
  /\ gs.gameStatus = PLAYING => gs.currentMoney < GOAL_MONEY
  /\ gs.gameStatus = WON => Includes(gs.milestonesReached, GOAL_MONEY)

\* the game was won with exactly the goal and money was spent afterwards:
\* the balance is below the goal again, the game stays Won
C38_Witness ==
  /\ gs.gameStatus = WON
  /\ gs.currentMoney < GOAL_MONEY
  /\ gs.statistics.totalMoneyEarned = GOAL_MONEY - STARTING_MONEY

\* how many notifications with this name and subject the events ev hold
Notified(ev, name, id) ==
  Cardinality({ k \in 1..Len(ev) : ev[k] = Ev(name, id) })

\* every growth tick that can run on the game g at the current time emits
\* one matured notification for each crop and animal that was Growing
\* before the tick and is Mature after it, none for any other entity of
\* the farm, and no matured notification at all for anything else
TickNotifiesOwnFlips(g) ==
  \A draws \in AttemptDraws(g, now) :
    LET r == _mainLoop(g, tm, nextId, now, draws)
    IN  /\ \A i \in 1..Len(g.crops) :
             Notified(r.ev, "crop-matured", g.crops[i].id) =
               IF g.crops[i].status = GROWING /\ r.g.crops[i].status = MATURE
               THEN 1 ELSE 0
        /\ \A i \in 1..Len(g.animals) :
             Notified(r.ev, "animal-matured", g.animals[i].id) =
               IF g.animals[i].status = GROWING /\ r.g.animals[i].status = MATURE
               THEN 1 ELSE 0
        /\ \A k \in 1..Len(r.ev) :
             /\ r.ev[k].name = "crop-matured" =>
                  \E i \in 1..Len(g.crops) : g.crops[i].id = r.ev[k].subject
             /\ r.ev[k].name = "animal-matured" =>
                  \E i \in 1..Len(g.animals) : g.animals[i].id = r.ev[k].subject

\* the game after another caller's isMature() on the i-th crop in the field
CropAsked(g, i) == [g EXCEPT !.crops[i] = Crop_isMature(@, now).e]

\* the game after another caller's isMature() on the i-th animal on the farm
AnimalAsked(g, i) == [g EXCEPT !.animals[i] = Animal_isMature(@, now).e]

\* C39: over the life of an entity at most one matured notification is
\* emitted for it, and only by a growth tick whose own isMature() call
\* made the Growing->Mature transition: a tick notifies once each entity
\* it turns from Growing to Mature and nothing else, an entity that is
\* Mature or later is never Growing again, and when another caller of
\* isMature() has made the transition first, the tick that follows emits
\* no matured notification for that entity.
C39_NotifiedOnceByTick ==
  /\ [][ /\ \A i \in 1..Len(AllCrops) : \A x \in SameCrop(AllCrops[i]) :
              AllCrops[i].status \in {MATURE, HARVESTED} => x.status # GROWING
         /\ \A i \in 1..Len(AllAnimals) : \A x \in SameAnimal(AllAnimals[i]) :
              AllAnimals[i].status = MATURE => x.status # GROWING
       ]_vars
  /\ [](/\ TickNotifiesOwnFlips(gs)
        /\ \A i \in 1..Len(gs.crops) :
             /\ TickNotifiesOwnFlips(CropAsked(gs, i))
             /\ CropDue(gs.crops[i], now) =>
                  \A draws \in AttemptDraws(CropAsked(gs, i), now) :
                    Notified(_mainLoop(CropAsked(gs, i), tm, nextId, now, draws).ev,
                             "crop-matured", gs.crops[i].id) = 0
        /\ \A i \in 1..Len(gs.animals) :
             /\ TickNotifiesOwnFlips(AnimalAsked(gs, i))
             /\ AnimalDue(gs.animals[i], now) =>
                  \A draws \in AttemptDraws(AnimalAsked(gs, i), now) :
                    Notified(_mainLoop(AnimalAsked(gs, i), tm, nextId, now, draws).ev,
                             "animal-matured", gs.animals[i].id) = 0)

\* a crop in the field is already Mature, turned and notified by an
\* earlier tick, while another entity is due: the running clock's next
\* tick has one notification to emit and one to withhold
C39_Witness ==
  /\ tm.liveGrowth > 0
  /\ gs.gameStatus = PLAYING
  /\ \E i \in 1..Len(gs.crops) : gs.crops[i].status = MATURE
  /\ \/ \E j \in 1..Len(gs.crops) : CropDue(gs.crops[j], now)
     \/ \E j \in 1..Len(gs.animals) : AnimalDue(gs.animals[j], now)

\* the animal a, asked isMature() at time t, is still Growing and at least
\* half but not all of its growth duration has elapsed since it was placed
InBreedingWindow(a, t) ==
  /\ a.placeTime # NULL
  /\ Animal_isMature(a, t).e.status = GROWING
  /\ 2 * (t - a.placeTime) >= Animal_growthDuration(a)
  /\ t - a.placeTime < Animal_growthDuration(a)

\* the animal a has not attempted breeding and is past the window: Mature,
\* or placed for its whole growth duration
MissedBreedingWindow(a, t) ==
  /\ ~a.breedingAttempted
  /\ a.status = MATURE \/ AnimalGrown(a, t)

\* C40: breedingAttempted becomes true only inside a growth tick in which
\* the animal, after the tick's isMature() call, is still Growing with at
\* least half and less than all of its growth duration elapsed: the step
\* that sets the flag is taken with the growth interval live, the game not
\* over and the clock standing still, on an animal inside the window; an
\* animal that enters the game has not attempted; and an animal that has
\* left the window without a tick (the clock paused or stopped, or the
\* animal Mature) never attempts.
C40_AttemptOnlyInWindowTick ==
  [][ /\ \A i \in 1..Len(AllAnimals) : \A x \in SameAnimal(AllAnimals[i]) :
           LET a == AllAnimals[i]
           IN  /\ (~a.breedingAttempted /\ x.breedingAttempted) =>
                    /\ tm.liveGrowth > 0
                    /\ ~isGameOver(gs)
                    /\ now' = now
                    /\ InBreedingWindow(a, now)
               /\ MissedBreedingWindow(a, now) => ~x.breedingAttempted
      /\ \A j \in 1..Len(gs'.youngAnimals \o gs'.animals) :
           LET x == (gs'.youngAnimals \o gs'.animals)[j]
           IN  (\A i \in 1..Len(AllAnimals) : AllAnimals[i].id # x.id) =>
                 ~x.breedingAttempted
    ]_vars

\* the clock is paused and an animal on the farm has been placed for its
\* whole growth duration without having attempted: no tick ran while it was
\* in the window
C40_Witness ==
  /\ tm.liveGrowth = 0
  /\ \E i \in 1..Len(gs.animals) :
       /\ gs.animals[i].status = GROWING
       /\ MissedBreedingWindow(gs.animals[i], now)

====
